---- MODULE Spec2Model ----
(***************************************************************************)
(* State-machine model of the T0VE host communication stack:               *)
(*   - Port   : host_application_drivers/host_device_serial.py (HostSerial)*)
(*   - Serdes : host_application_drivers/host_device_state_serdes.py       *)
(*   - Mirror : host_application_drivers/ui_dict_viewer_aggregator.py      *)
(*   - Chunked file read : testing/test_file_request.py (_transfer_file)   *)
(* Byte strings are sequences of 0..255; queues are sequences.             *)
(***************************************************************************)
EXTENDS Integers, Sequences, FiniteSets, TLC

VARIABLES
    \* ---- Port (HostSerial) ----
    allowing_connections,   \* self._allowing_connections
    port,                   \* self._port: "none" | "open" | "broken" (handle whose I/O raises)
    port_connected,         \* self._port_connected
    port_error,             \* self._port_error_do_shutdown_signal
    stop_signal,            \* self._stop_signal
    tx_queue,               \* self._tx_queue (Queue(maxsize=8)) of byte strings
    rx_buffer,              \* self._rx_buffer (bytearray)
    rx_clear_signal,        \* self._rx_clear_signal
    rx_queue,               \* self._rx_queue of completed payloads
    port_pc,                \* position of the supervisor thread (_run_port)
    tx_pc,                  \* position of the TX thread object (_run_tx)
    tx_item,                \* the frame the TX thread dequeued and is writing
    rx_pc,                  \* position of the RX thread object (_run_rx)
    rec_pc,                 \* position of a caller inside recover()
    rec_i,                  \* recover(): iterations of the for loop done so far
    rec_seen,               \* history: a frame was completed while recover() was looping
    \* ---- serial link (environment) ----
    device_present,         \* a matching USB device is enumerated
    line,                   \* bytes the device has emitted that have not reached the OS buffer
    os_in,                  \* OS input buffer of the handle (in_waiting bytes)
    wire_out,               \* the byte string written to the handle last (empty before any)
    fr_sent,                \* history: payloads whose frames were put on the line
    \* ---- Serdes (HostDeviceStateSerdes) ----
    rx_frame_received_signal,  \* state ack event
    rx_file_response_signal,   \* file ack event
    refresh_state_signal,      \* transmit-thread wake event
    command_queue,             \* self._command_queue (maxsize 16)
    file_request_queue,        \* self._file_request_queue (maxsize 16)
    t_transmit_pc,             \* position of the transmit worker
    t_file_pc,                 \* position of the file-request worker
    serdes_pub,                \* topics published by the last Serdes step
    state_routed_since_clear,  \* history: a node_state was routed since the state ack was cleared
    file_routed_since_clear,   \* history: a file response was routed since the file ack was cleared
    serdes_stop,               \* self.stop
    trigger_pass,              \* history: parity of the passes of the trigger worker
    last_connected_pub,        \* history: <<v>> for the payload v last sent on port.status.connected
    \* ---- Mirror (DictViewerAggregator) ----
    reference_dict,         \* history: the reference_dict argument as it was at construction
    flat_dict,              \* self._flat_dict: path -> value
    ui_update_event,        \* self._ui_update_event
    mirror_pub,             \* messages published by the last mirror operation
    last_push,              \* history: the leaf proposals of the last mirror operation
    frontend_pub,           \* history: the message a widget last sent on frontend.get.<path>
    publisher_pc,           \* position of the ui-update publisher thread
    sleep_left,             \* ticks left of the publisher's _stop.wait(ui_max_publish_rate_s)
    since_nested_get,       \* history: ticks since the last nested.get publish (saturating)
    \* ---- chunked file read (FileRequestTestGUI._transfer_file) ----
    xf_pc,                  \* position inside _transfer_file
    filesize,               \* file_info.filesize
    offset,                 \* offset
    file_data,              \* file_data (bytearray), as a sequence of accepted data blocks
    attempt,                \* loop variable of `for attempt in range(max_retries)`
    file_response_event,    \* self.file_response_event
    pending_file_response,  \* self.pending_file_response
    xf_request,             \* the read request published last (NoRequest before the first)
    xf_requests,            \* history: number of requests published
    xf_saved,               \* the bytes written to disk (<<>> while nothing is written, else <<bytes>>)
    xf_outcome,             \* history: how the last wait ended
    xf_chunk_reqs,          \* history: requests published since offset last changed
    dev_responses,          \* responses the device may still produce
    \* ---- line noise ----
    fr_junk,                \* history: the bytes put on the line before each frame of fr_sent
    \* ---- a call of one of the pure helpers ----
    fn_args,                \* the arguments of the call
    fn_result,              \* <<>> until the call returns, then <<return value>>
    \* ---- callers of the Port ----
    rx_returned,            \* <<>> before any read_frame() returned a frame, then <<the frame returned last>>
    serdes_in,              \* history: <<>> or <<m>> for the message m published last on .command or .file_request
    \* ---- objects held by the callers of the Mirror ----
    caller_objs,            \* the list objects a caller holds: where each came from, its path, whether it is the canonical leaf object
    caller_mutations,       \* history: parity of the in-place mutations callers made
    \* ---- dispatcher (tsc_dispatcher.py), debug terminal control ----
    last_connect_status,    \* _on_port_status_dis_connect.last_connect_status (False until the first call sets the attribute)
    disp_msg,               \* history: <<>> or <<m>> for the message m published last on a node's port.status.connected
    disp_clear,             \* the nodes whose debug sink got a .clear in the last step
    node_connected,         \* history: per linked node, the bool published last on its port.status.connected (false before any)
    \* ---- requests and replies of the transmit worker, numbered ----
    req_no,                 \* history: the number of the state frame the transmit worker submitted last (0 before the first)
    ack_req,                \* history: <<>> while the state ack is clear, else <<k>> for the request k answered by the node_state that set it
    \* ---- the snapshot broadcaster of the Mirror, statement by statement ----
    mirror_stop,            \* DictViewerAggregator._stop
    snapshot,               \* {} or {s} for the nested snapshot s the broadcaster has pulled and not yet published
    edit_pc,                \* the thread delivering a frontend.get message: "idle", or "set" when the leaf is written and the event not yet set
    edit_signalled,         \* history: _ui_update_event was set by a frontend edit since it was cleared last
    cycle_has_edit,         \* history: the broadcaster's last clear took a set made by a frontend edit
    dirty,                  \* history: a frontend edit was written since the broadcaster's last pull
    owed,                   \* history: a frontend edit was written that no published snapshot pulled afterwards contains
    \* ---- the cycles of the transmit worker with numbered commands ----
    cycle_tick,             \* history: parity of the passes of the transmit worker's loop
    published,              \* history: how many NodeState commands were published on .command
    submitted,              \* history: the numbers of the queued commands handed to write_frame, in order
    \* ---- the passes of the file-request worker with numbered requests ----
    file_tick,              \* history: parity of the requests the file-request worker has dequeued
    file_published,         \* history: how many file requests were published on .file_request
    file_submitted,         \* history: the numbers of the file requests handed to write_frame, in order
    file_dropped,           \* history: the numbers of the file requests dequeued while the port was not connected
    \* ---- the RX framing machine on arbitrary bytes ----
    rx_stream,              \* history: the bytes the device puts on the line, frames or not
    \* ---- the threads that share the mirror lock ----
    lock_owner,             \* self._lock: the thread that holds it, or "None"
    lk_pc,                  \* per thread: its position in the mirror operation it runs
    lk_call,                \* per thread: the operation it runs, the leaves still to push and the paths it updated
    lk_read,                \* per thread: <<>> or <<x>> for what it read from the flat map inside the lock
    \* ---- the chunked read on top of the file-request worker ----
    relay_device            \* the read requests the device has received and not yet answered, oldest first

portVars == <<allowing_connections, port, port_connected, port_error, stop_signal,
              tx_queue, rx_buffer, rx_clear_signal, rx_queue, port_pc, tx_pc,
              tx_item, rx_pc, rec_pc, rec_i, rec_seen>>
linkVars == <<device_present, line, os_in, wire_out, fr_sent>>
serdesVars == <<rx_frame_received_signal, rx_file_response_signal, refresh_state_signal,
                command_queue, file_request_queue, t_transmit_pc, t_file_pc,
                serdes_pub, state_routed_since_clear,
                file_routed_since_clear>>
mirrorVars == <<reference_dict, flat_dict, ui_update_event, mirror_pub, last_push, frontend_pub>>
xferVars == <<xf_pc, filesize, offset, file_data, attempt, file_response_event,
              pending_file_response, xf_request, xf_requests, xf_saved, xf_outcome,
              xf_chunk_reqs, dev_responses>>
statusVars == <<serdes_stop, trigger_pass, last_connected_pub>>
throttleVars == <<publisher_pc, sleep_left, since_nested_get>>
noiseVars == <<fr_junk>>
fnVars == <<fn_args, fn_result>>
callerVars == <<rx_returned>>
topicVars == <<serdes_in>>
aliasVars == <<caller_objs, caller_mutations>>
dispatchVars == <<last_connect_status, disp_msg, disp_clear, node_connected>>
ackVars == <<req_no, ack_req>>
broadcastVars == <<mirror_stop, snapshot, edit_pc, edit_signalled, cycle_has_edit, dirty, owed>>
cycleVars == <<cycle_tick, published, submitted>>
fileCycleVars == <<file_tick, file_published, file_submitted, file_dropped>>
resyncVars == <<rx_stream>>
lockVars == <<lock_owner, lk_pc, lk_call, lk_read>>
relayVars == <<relay_device>>
\* the variables of single scenarios
scenarioVars == <<aliasVars, dispatchVars, ackVars, broadcastVars, cycleVars, fileCycleVars, resyncVars, lockVars, relayVars>>
aliasRest == <<dispatchVars, ackVars, broadcastVars, cycleVars, fileCycleVars, resyncVars, lockVars, relayVars>>
dispatchRest == <<aliasVars, ackVars, broadcastVars, cycleVars, fileCycleVars, resyncVars, lockVars, relayVars>>
ackRest == <<aliasVars, dispatchVars, broadcastVars, cycleVars, fileCycleVars, resyncVars, lockVars, relayVars>>
broadcastRest == <<aliasVars, dispatchVars, ackVars, cycleVars, fileCycleVars, resyncVars, lockVars, relayVars>>
cycleRest == <<aliasVars, dispatchVars, ackVars, broadcastVars, fileCycleVars, resyncVars, lockVars, relayVars>>
fileCycleRest == <<aliasVars, dispatchVars, ackVars, broadcastVars, cycleVars, resyncVars, lockVars, relayVars>>
resyncRest == <<aliasVars, dispatchVars, ackVars, broadcastVars, cycleVars, fileCycleVars, lockVars, relayVars>>
lockRest == <<aliasVars, dispatchVars, ackVars, broadcastVars, cycleVars, fileCycleVars, resyncVars, relayVars>>
relayRest == <<aliasVars, dispatchVars, ackVars, broadcastVars, cycleVars, fileCycleVars, resyncVars, lockVars>>
vars == <<portVars, linkVars, serdesVars, mirrorVars, xferVars, statusVars, throttleVars,
          noiseVars,
          fnVars,
          callerVars,
          topicVars,
          scenarioVars>>

None == "None"

\* `None` where a file request or response record is expected
NoResponse == [filename |-> "None", offset |-> 0, read_nwrite |-> FALSE, data |-> <<>>]
NoRequest == NoResponse

(***************************************************************************)
(* Generic helpers                                                         *)
(***************************************************************************)
Min(a, b) == IF a < b THEN a ELSE b

RECURSIVE Concat(_)
Concat(ss) == IF ss = <<>> THEN <<>> ELSE Head(ss) \o Concat(Tail(ss))

IsPrefix(s, t) == Len(s) <= Len(t) /\ SubSeq(t, 1, Len(s)) = s

Zeros(n) == [i \in 1..n |-> 0]

(***************************************************************************)
(* PORT LAYER: framing                                                     *)
(***************************************************************************)
START_CODE == 238          \* start_code: int = 0xEE
TX_QUEUE_MAX == 8          \* Queue(maxsize=8)
MAX_PAYLOAD == 65535       \* 0xFFFF

\* header = bytes((start_code & 0xFF, (length >> 8) & 0xFF, length & 0xFF))
FrameHeaderLE(length) == <<START_CODE % 256, length % 256, (length \div 256) % 256>>
FrameHeader(length) == <<START_CODE % 256, (length \div 256) % 256, length % 256>>

\* frame = header + data
BuildFrame(payload) == FrameHeader(Len(payload)) \o payload

\* index of the first START_CODE in buf, 0 when there is none
\* a scan that takes the first byte of the buffer for a start code
FindStartFirst(buf, i) ==
    IF i > Len(buf) THEN 0 ELSE i

RECURSIVE FindStart(_, _)
FindStart(buf, i) ==
    IF i > Len(buf) THEN 0
    ELSE IF buf[i] = START_CODE % 256 THEN i
    ELSE FindStart(buf, i + 1)

\* a framing pass that returns after the first frame it extracts
ProcessRxBufferOnce(buf, q) ==
    LET start_idx == FindStart(buf, 1) IN
    IF start_idx = 0 THEN [buf |-> <<>>, q |-> q]
    ELSE
        LET b == SubSeq(buf, start_idx, Len(buf)) IN
        IF Len(b) < 3 THEN [buf |-> b, q |-> q]
        ELSE
            LET length == b[2] * 256 + b[3]
                total_needed == 1 + 2 + length
            IN  IF Len(b) < total_needed THEN [buf |-> b, q |-> q]
                ELSE [buf |-> SubSeq(b, total_needed + 1, Len(b)),
                      q |-> Append(q, SubSeq(b, 4, 3 + length))]

\* _process_rx_buffer: the framing loop; returns the buffer left and the queue
RECURSIVE ProcessRxBuffer(_, _)
ProcessRxBuffer(buf, q) ==
    LET start_idx == FindStart(buf, 1) IN
    IF start_idx = 0 THEN [buf |-> <<>>, q |-> q]
    ELSE
        LET b == SubSeq(buf, start_idx, Len(buf)) IN
        IF Len(b) < 3 THEN [buf |-> b, q |-> q]
        ELSE
            LET length == b[2] * 256 + b[3]
                total_needed == 1 + 2 + length
            IN  IF Len(b) < total_needed THEN [buf |-> b, q |-> q]
                ELSE ProcessRxBuffer(SubSeq(b, total_needed + 1, Len(b)),
                                     Append(q, SubSeq(b, 4, 3 + length)))


(***************************************************************************)
(* PORT LAYER: public API (callers' threads)                               *)
(***************************************************************************)
RecoverAttempts == 2       \* recover(attempts=...) used by the callers of the model
MaxRxQueue == 2            \* the device stops sending while this many frames wait
PortPayloads == {<<>>, <<7>>}      \* payloads the device sends in the recovery scenarios
ZeroByte == <<0>>                  \* b"\x00"

\* a put that goes in front of the items already queued
PutNowaitFront(q, item, maxsize) == IF Len(q) < maxsize THEN <<item>> \o q ELSE q

\* Queue.put_nowait on a Queue(maxsize=8): Full leaves the queue as it is
PutNowaitUnbounded(q, item, maxsize) == Append(q, item)
PutNowait(q, item, maxsize) == IF Len(q) < maxsize THEN Append(q, item) ELSE q

\* connect()
Connect ==
    /\ allowing_connections' = TRUE
    /\ UNCHANGED <<port, port_connected, port_error, stop_signal, tx_queue, rx_buffer,
                   rx_clear_signal, rx_queue, port_pc, tx_pc, tx_item, rx_pc, rec_pc,
                   rec_i, rec_seen>>
    /\ UNCHANGED <<linkVars, serdesVars, mirrorVars, xferVars, statusVars, throttleVars, noiseVars, fnVars, callerVars, topicVars, scenarioVars>>

\* disconnect()
Disconnect ==
    /\ allowing_connections' = FALSE
    /\ UNCHANGED <<port, port_connected, port_error, stop_signal, tx_queue, rx_buffer,
                   rx_clear_signal, rx_queue, port_pc, tx_pc, tx_item, rx_pc, rec_pc,
                   rec_i, rec_seen>>
    /\ UNCHANGED <<linkVars, serdesVars, mirrorVars, xferVars, statusVars, throttleVars, noiseVars, fnVars, callerVars, topicVars, scenarioVars>>

\* write_frame(payload): the effect on the TX queue
write_frame(payload) ==
    IF Len(payload) > MAX_PAYLOAD
    THEN tx_queue' = tx_queue                      \* raise ValueError
    ELSE tx_queue' = PutNowait(tx_queue, BuildFrame(payload), TX_QUEUE_MAX)

WriteFrame(payload) ==
    /\ write_frame(payload)
    /\ UNCHANGED <<allowing_connections, port, port_connected, port_error, stop_signal,
                   rx_buffer, rx_clear_signal, rx_queue, port_pc, tx_pc, tx_item, rx_pc,
                   rec_pc, rec_i, rec_seen>>
    /\ UNCHANGED <<linkVars, serdesVars, mirrorVars, xferVars, statusVars, throttleVars, noiseVars, fnVars, callerVars, topicVars, scenarioVars>>

\* read_frame(): a consumer takes the next completed payload
ReadFrame ==
    /\ rx_queue # <<>>
    /\ rx_returned' = <<Head(rx_queue)>>
    /\ rx_queue' = Tail(rx_queue)
    /\ UNCHANGED <<allowing_connections, port, port_connected, port_error, stop_signal,
                   tx_queue, rx_buffer, rx_clear_signal, port_pc, tx_pc, tx_item, rx_pc,
                   rec_pc, rec_i, rec_seen>>
    /\ UNCHANGED <<linkVars, serdesVars, mirrorVars, xferVars, statusVars, throttleVars, noiseVars, fnVars, topicVars, scenarioVars>>

\* clear_receive_buffer()
ClearReceiveBuffer ==
    /\ rx_clear_signal' = TRUE
    /\ UNCHANGED <<allowing_connections, port, port_connected, port_error, stop_signal,
                   tx_queue, rx_buffer, rx_queue, port_pc, tx_pc, tx_item, rx_pc,
                   rec_pc, rec_i, rec_seen>>
    /\ UNCHANGED <<linkVars, serdesVars, mirrorVars, xferVars, statusVars, throttleVars, noiseVars, fnVars, callerVars, topicVars, scenarioVars>>

\* recover(): a caller enters the function
RecoverCall ==
    /\ rec_pc # "iter"
    /\ rec_pc' = "iter"
    /\ rec_i' = 0
    /\ rec_seen' = FALSE
    /\ UNCHANGED <<allowing_connections, port, port_connected, port_error, stop_signal,
                   tx_queue, rx_buffer, rx_clear_signal, rx_queue, port_pc, tx_pc,
                   tx_item, rx_pc>>
    /\ UNCHANGED <<linkVars, serdesVars, mirrorVars, xferVars, statusVars, throttleVars, noiseVars, fnVars, callerVars, topicVars, scenarioVars>>

\* a pass that injects its byte without looking at the connection
recover_iterUnchecked(attempts) ==
    IF rec_i >= attempts
    THEN /\ rec_pc' = "ret_exhausted"
         /\ UNCHANGED <<tx_queue, rec_i>>
    ELSE IF rx_queue # <<>>
    THEN /\ rec_pc' = "ret_frame"
         /\ UNCHANGED <<tx_queue, rec_i>>
    ELSE /\ tx_queue' = PutNowait(tx_queue, ZeroByte, TX_QUEUE_MAX)
         /\ rec_i' = rec_i + 1
         /\ rec_pc' = "iter"

\* recover(): one pass of `for _ in range(attempts)` (checks, put, wait)
recover_iter(attempts) ==
    IF rec_i >= attempts
    THEN /\ rec_pc' = "ret_exhausted"
         /\ UNCHANGED <<tx_queue, rec_i>>
    ELSE IF rx_queue # <<>>
    THEN /\ rec_pc' = "ret_frame"
         /\ UNCHANGED <<tx_queue, rec_i>>
    ELSE IF ~port_connected
    THEN /\ rec_pc' = "ret_disconnected"
         /\ UNCHANGED <<tx_queue, rec_i>>
    ELSE /\ tx_queue' = PutNowait(tx_queue, ZeroByte, TX_QUEUE_MAX)
         /\ rec_i' = rec_i + 1
         /\ rec_pc' = "iter"

RecoverIter ==
    /\ rec_pc = "iter"
    /\ recover_iter(RecoverAttempts)
    /\ UNCHANGED <<allowing_connections, port, port_connected, port_error, stop_signal,
                   rx_buffer, rx_clear_signal, rx_queue, port_pc, tx_pc, tx_item, rx_pc,
                   rec_seen>>
    /\ UNCHANGED <<linkVars, serdesVars, mirrorVars, xferVars, statusVars, throttleVars, noiseVars, fnVars, callerVars, topicVars, scenarioVars>>

\* close(): raises the stop signal
PortClose ==
    /\ stop_signal' = TRUE
    /\ UNCHANGED <<allowing_connections, port, port_connected, port_error, tx_queue,
                   rx_buffer, rx_clear_signal, rx_queue, port_pc, tx_pc, tx_item, rx_pc,
                   rec_pc, rec_i, rec_seen>>
    /\ UNCHANGED <<linkVars, serdesVars, mirrorVars, xferVars, statusVars, throttleVars, noiseVars, fnVars, callerVars, topicVars, scenarioVars>>

(***************************************************************************)
(* PORT LAYER: TX thread (_run_tx)                                         *)
(***************************************************************************)
\* while not stop and not port_error
TxLoop ==
    /\ tx_pc = "loop"
    /\ tx_pc' = IF stop_signal \/ port_error THEN "done" ELSE "get"
    /\ UNCHANGED <<allowing_connections, port, port_connected, port_error, stop_signal,
                   tx_queue, rx_buffer, rx_clear_signal, rx_queue, port_pc, tx_item,
                   rx_pc, rec_pc, rec_i, rec_seen>>
    /\ UNCHANGED <<linkVars, serdesVars, mirrorVars, xferVars, statusVars, throttleVars, noiseVars, fnVars, callerVars, topicVars, scenarioVars>>

\* to_transmit = self._tx_queue.get(timeout=0.1)
TxGet ==
    /\ tx_pc = "get"
    /\ IF tx_queue # <<>>
       THEN /\ tx_item' = Head(tx_queue)
            /\ tx_queue' = Tail(tx_queue)
            /\ tx_pc' = "write"
       ELSE /\ tx_pc' = "loop"
            /\ UNCHANGED <<tx_item, tx_queue>>
    /\ UNCHANGED <<allowing_connections, port, port_connected, port_error, stop_signal,
                   rx_buffer, rx_clear_signal, rx_queue, port_pc, rx_pc, rec_pc, rec_i,
                   rec_seen>>
    /\ UNCHANGED <<linkVars, serdesVars, mirrorVars, xferVars, statusVars, throttleVars, noiseVars, fnVars, callerVars, topicVars, scenarioVars>>

\* self._port.write(to_transmit); self._port.flush(); any exception raises port_error
TxWrite ==
    /\ tx_pc = "write"
    /\ port_error' = IF port = "open" THEN port_error ELSE TRUE
    /\ wire_out' = IF port = "open" THEN tx_item ELSE wire_out
    /\ tx_item' = <<>>
    /\ tx_pc' = "loop"
    /\ UNCHANGED <<allowing_connections, port, port_connected, stop_signal, tx_queue,
                   rx_buffer, rx_clear_signal, rx_queue, port_pc, rx_pc, rec_pc, rec_i,
                   rec_seen>>
    /\ UNCHANGED <<device_present, line, os_in, fr_sent>>
    /\ UNCHANGED <<serdesVars, mirrorVars, xferVars, statusVars, throttleVars, noiseVars, fnVars, callerVars, topicVars, scenarioVars>>

(***************************************************************************)
(* PORT LAYER: RX thread (_run_rx)                                         *)
(***************************************************************************)
RxLoop ==
    /\ rx_pc = "loop"
    /\ rx_pc' = IF stop_signal \/ port_error THEN "done" ELSE "read"
    /\ UNCHANGED <<allowing_connections, port, port_connected, port_error, stop_signal,
                   tx_queue, rx_buffer, rx_clear_signal, rx_queue, port_pc, tx_pc,
                   tx_item, rec_pc, rec_i, rec_seen>>
    /\ UNCHANGED <<linkVars, serdesVars, mirrorVars, xferVars, statusVars, throttleVars, noiseVars, fnVars, callerVars, topicVars, scenarioVars>>

\* a flush that leaves the accumulated bytes where they are
flush_rx_bufferKeep(buf) == buf

\* _flush_rx_buffer: self._rx_buffer.clear()
flush_rx_buffer(buf) == <<>>

\* one pass of the loop body: optional flush, read of everything pending, framing
RxRead ==
    /\ rx_pc = "read"
    /\ rx_pc' = "loop"
    /\ IF port # "open"
       THEN \* the flush or the read raises: port_error is set, the flag is not cleared
            /\ port_error' = TRUE
            /\ rx_buffer' = IF rx_clear_signal THEN flush_rx_buffer(rx_buffer) ELSE rx_buffer
            /\ UNCHANGED <<rx_clear_signal, rx_queue, os_in, rec_seen>>
       ELSE LET base == IF rx_clear_signal THEN flush_rx_buffer(rx_buffer) ELSE rx_buffer
                data == IF rx_clear_signal THEN <<>> ELSE os_in
                r == IF data # <<>> THEN ProcessRxBuffer(base \o data, rx_queue)
                     ELSE [buf |-> base, q |-> rx_queue]
            IN  /\ rx_buffer' = r.buf
                /\ rx_queue' = r.q
                /\ os_in' = <<>>
                /\ rx_clear_signal' = FALSE
                /\ rec_seen' = (rec_seen \/ (rec_pc = "iter" /\ r.q # rx_queue))
                /\ UNCHANGED port_error
    /\ UNCHANGED <<allowing_connections, port, port_connected, stop_signal, tx_queue,
                   port_pc, tx_pc, tx_item, rec_pc, rec_i>>
    /\ UNCHANGED <<device_present, line, wire_out, fr_sent>>
    /\ UNCHANGED <<serdesVars, mirrorVars, xferVars, statusVars, throttleVars, noiseVars, fnVars, callerVars, topicVars, scenarioVars>>


(***************************************************************************)
(* PORT LAYER: supervisor thread (_run_port, _check_do_dis_connect)        *)
(***************************************************************************)
ThreadRunning(pc) == pc \notin {"new", "done"}

\* Thread.start(): a thread object can be started once; a second start raises
\* RuntimeError, which nothing in _run_port catches
StartAllowed(pc) == pc = "new"

\* top of the loop and the branch taken by _check_do_dis_connect
PortCheck ==
    /\ port_pc = "check"
    /\ IF stop_signal
       THEN /\ port_pc' = "done"
            /\ UNCHANGED <<port, port_connected, port_error>>
       ELSE IF (port_connected /\ ~allowing_connections) \/ port_error
       THEN /\ port_error' = TRUE
            /\ port_pc' = "join_tx"
            /\ UNCHANGED <<port, port_connected>>
       ELSE IF ~port_connected /\ allowing_connections
       THEN \* _handle_connect: open the first matching device, if any
            \/ /\ device_present
               /\ port' = "open"
               /\ port_connected' = TRUE
               /\ port_pc' = "flush"
               /\ UNCHANGED port_error
            \/ /\ port' = "none"          \* no match, or serial.Serial raised
               /\ port_pc' = "flow"
               /\ UNCHANGED <<port_connected, port_error>>
       ELSE /\ port_pc' = "flow"
            /\ UNCHANGED <<port, port_connected, port_error>>
    /\ UNCHANGED <<allowing_connections, stop_signal, tx_queue, rx_buffer,
                   rx_clear_signal, rx_queue, tx_pc, tx_item, rx_pc, rec_pc, rec_i,
                   rec_seen>>
    /\ UNCHANGED <<linkVars, serdesVars, mirrorVars, xferVars, statusVars, throttleVars, noiseVars, fnVars, callerVars, topicVars, scenarioVars>>

\* self._tx_thread.join(timeout=1): returns when the thread has ended or after 1 s;
\* joining a thread that was never started raises, and the except skips the rx join
PortJoinTx ==
    /\ port_pc = "join_tx"
    /\ port_pc' = IF tx_pc = "new" THEN "disconnect" ELSE "join_rx"
    /\ UNCHANGED <<allowing_connections, port, port_connected, port_error, stop_signal,
                   tx_queue, rx_buffer, rx_clear_signal, rx_queue, tx_pc, tx_item,
                   rx_pc, rec_pc, rec_i, rec_seen>>
    /\ UNCHANGED <<linkVars, serdesVars, mirrorVars, xferVars, statusVars, throttleVars, noiseVars, fnVars, callerVars, topicVars, scenarioVars>>

\* self._rx_thread.join(timeout=1)
PortJoinRx ==
    /\ port_pc = "join_rx"
    /\ port_pc' = "disconnect"
    /\ UNCHANGED <<allowing_connections, port, port_connected, port_error, stop_signal,
                   tx_queue, rx_buffer, rx_clear_signal, rx_queue, tx_pc, tx_item,
                   rx_pc, rec_pc, rec_i, rec_seen>>
    /\ UNCHANGED <<linkVars, serdesVars, mirrorVars, xferVars, statusVars, throttleVars, noiseVars, fnVars, callerVars, topicVars, scenarioVars>>

\* _handle_disconnect(), then self._port_error_do_shutdown_signal.clear()
PortDisconnect ==
    /\ port_pc = "disconnect"
    /\ port' = "none"
    /\ port_connected' = FALSE
    /\ port_error' = FALSE
    /\ os_in' = <<>>
    /\ port_pc' = "flow"
    /\ UNCHANGED <<allowing_connections, stop_signal, tx_queue, rx_buffer,
                   rx_clear_signal, rx_queue, tx_pc, tx_item, rx_pc, rec_pc, rec_i,
                   rec_seen>>
    /\ UNCHANGED <<device_present, line, wire_out, fr_sent>>
    /\ UNCHANGED <<serdesVars, mirrorVars, xferVars, statusVars, throttleVars, noiseVars, fnVars, callerVars, topicVars, scenarioVars>>

\* after a successful _handle_connect: _flush_rx_buffer(); _flush_tx_buffer().
\* reset_input_buffer() on a handle that raises ends the supervisor thread
PortFlush ==
    /\ port_pc = "flush"
    /\ rx_buffer' = <<>>
    /\ IF port = "open"
       THEN /\ os_in' = <<>>
            /\ tx_queue' = <<>>
            /\ port_pc' = "start"
       ELSE /\ port_pc' = "dead"
            /\ UNCHANGED <<os_in, tx_queue>>
    /\ UNCHANGED <<allowing_connections, port, port_connected, port_error, stop_signal,
                   rx_clear_signal, rx_queue, tx_pc, tx_item, rx_pc, rec_pc, rec_i,
                   rec_seen>>
    /\ UNCHANGED <<device_present, line, wire_out, fr_sent>>
    /\ UNCHANGED <<serdesVars, mirrorVars, xferVars, statusVars, throttleVars, noiseVars, fnVars, callerVars, topicVars, scenarioVars>>

\* self._tx_thread.start(); self._rx_thread.start()
PortStart ==
    /\ port_pc = "start"
    /\ IF StartAllowed(tx_pc)
       THEN /\ tx_pc' = "loop"
            /\ IF StartAllowed(rx_pc)
               THEN rx_pc' = "loop" /\ port_pc' = "flow"
               ELSE rx_pc' = rx_pc /\ port_pc' = "dead"
       ELSE /\ port_pc' = "dead"
            /\ UNCHANGED <<tx_pc, rx_pc>>
    /\ UNCHANGED <<allowing_connections, port, port_connected, port_error, stop_signal,
                   tx_queue, rx_buffer, rx_clear_signal, rx_queue, tx_item, rec_pc,
                   rec_i, rec_seen>>
    /\ UNCHANGED <<linkVars, serdesVars, mirrorVars, xferVars, statusVars, throttleVars, noiseVars, fnVars, callerVars, topicVars, scenarioVars>>

\* _manage_flow_control(): DTR/RTS on the handle; an exception raises port_error
PortFlow ==
    /\ port_pc = "flow"
    /\ port_error' = IF port = "broken" THEN TRUE ELSE port_error
    /\ port_pc' = "check"
    /\ UNCHANGED <<allowing_connections, port, port_connected, stop_signal, tx_queue,
                   rx_buffer, rx_clear_signal, rx_queue, tx_pc, tx_item, rx_pc, rec_pc,
                   rec_i, rec_seen>>
    /\ UNCHANGED <<linkVars, serdesVars, mirrorVars, xferVars, statusVars, throttleVars, noiseVars, fnVars, callerVars, topicVars, scenarioVars>>

(***************************************************************************)
(* Serial link and device (environment)                                    *)
(***************************************************************************)
\* the device is unplugged: the open handle starts raising on every operation
Unplug ==
    /\ device_present
    /\ device_present' = FALSE
    /\ port' = IF port = "open" THEN "broken" ELSE port
    /\ os_in' = <<>>
    /\ UNCHANGED <<allowing_connections, port_connected, port_error, stop_signal,
                   tx_queue, rx_buffer, rx_clear_signal, rx_queue, port_pc, tx_pc,
                   tx_item, rx_pc, rec_pc, rec_i, rec_seen>>
    /\ UNCHANGED <<line, wire_out, fr_sent>>
    /\ UNCHANGED <<serdesVars, mirrorVars, xferVars, statusVars, throttleVars, noiseVars, fnVars, callerVars, topicVars, scenarioVars>>

Replug ==
    /\ ~device_present
    /\ device_present' = TRUE
    /\ UNCHANGED <<portVars, line, os_in, wire_out, fr_sent>>
    /\ UNCHANGED <<serdesVars, mirrorVars, xferVars, statusVars, throttleVars, noiseVars, fnVars, callerVars, topicVars, scenarioVars>>

\* the device emits one whole frame, which arrives in the OS input buffer
DeviceSend(payload) ==
    /\ port = "open"
    /\ os_in = <<>>
    /\ Len(rx_queue) < MaxRxQueue
    /\ os_in' = os_in \o BuildFrame(payload)
    /\ UNCHANGED <<portVars, device_present, line, wire_out, fr_sent>>
    /\ UNCHANGED <<serdesVars, mirrorVars, xferVars, statusVars, throttleVars, noiseVars, fnVars, callerVars, topicVars, scenarioVars>>

\* n bytes of the line reach the OS input buffer (any split of the byte stream)
LineDeliver(n) ==
    /\ port = "open"
    /\ n \in 1..Len(line)
    /\ os_in' = os_in \o SubSeq(line, 1, n)
    /\ line' = SubSeq(line, n + 1, Len(line))
    /\ UNCHANGED <<portVars, device_present, wire_out, fr_sent>>
    /\ UNCHANGED <<serdesVars, mirrorVars, xferVars, statusVars, throttleVars, noiseVars, fnVars, callerVars, topicVars, scenarioVars>>


(***************************************************************************)
(* Initial states                                                          *)
(***************************************************************************)
\* HostSerial.__init__: only the supervisor thread is started
PortInit ==
    /\ allowing_connections = TRUE
    /\ port = "none"
    /\ port_connected = FALSE
    /\ port_error = FALSE
    /\ stop_signal = FALSE
    /\ tx_queue = <<>>
    /\ rx_buffer = <<>>
    /\ rx_clear_signal = FALSE
    /\ rx_queue = <<>>
    /\ port_pc = "check"
    /\ tx_pc = "new"
    /\ tx_item = <<>>
    /\ rx_pc = "new"
    /\ rec_pc = "idle"
    /\ rec_i = 0
    /\ rec_seen = FALSE
    /\ rx_returned = <<>>

\* the port after its first successful connection: handle open, TX and RX started
PortConnectedInit ==
    /\ allowing_connections = TRUE
    /\ port = "open"
    /\ port_connected = TRUE
    /\ port_error = FALSE
    /\ stop_signal = FALSE
    /\ tx_queue = <<>>
    /\ rx_buffer = <<>>
    /\ rx_clear_signal = FALSE
    /\ rx_queue = <<>>
    /\ port_pc = "check"
    /\ tx_pc = "loop"
    /\ tx_item = <<>>
    /\ rx_pc = "loop"
    /\ rec_pc = "idle"
    /\ rec_i = 0
    /\ rec_seen = FALSE
    /\ rx_returned = <<>>

LinkInit ==
    /\ device_present = TRUE
    /\ line = <<>>
    /\ os_in = <<>>
    /\ wire_out = <<>>
    /\ fr_sent = <<>>

\* HostDeviceStateSerdes.__init__
\* no helper call under study
FnIdle == fn_args = <<>> /\ fn_result = <<>>

\* ---- scenarios at rest ----
\* no caller holds an object of a mirror
AliasIdle == caller_objs = {} /\ caller_mutations = 0
\* no dispatcher links in the scenario
DispatchIdle == last_connect_status = FALSE /\ disp_msg = <<>> /\ disp_clear = {} /\ node_connected = <<>>
\* no numbered requests in the scenario
AckIdle == req_no = 0 /\ ack_req = <<>>
\* the snapshot broadcaster taken as one step, the mirror never closed
BroadcastIdle == mirror_stop = FALSE /\ snapshot = {} /\ edit_pc = "idle" /\ edit_signalled = FALSE /\ cycle_has_edit = FALSE /\ dirty = FALSE /\ owed = FALSE
\* no numbered commands in the scenario
CycleIdle == cycle_tick = 0 /\ published = 0 /\ submitted = <<>>
\* no numbered file requests in the scenario
FileCycleIdle == file_tick = 0 /\ file_published = 0 /\ file_submitted = <<>> /\ file_dropped = {}
\* no raw byte stream in the scenario
ResyncIdle == rx_stream = <<>>
\* no thread of the lock scenario exists
LockIdle == lock_owner = "None" /\ lk_pc = <<>> /\ lk_call = <<>> /\ lk_read = <<>>
\* no file request has reached a device
RelayIdle == relay_device = <<>>
\* none of the single scenarios is running
ScenarioIdle == AliasIdle /\ DispatchIdle /\ AckIdle /\ BroadcastIdle /\ CycleIdle /\ FileCycleIdle /\ ResyncIdle /\ LockIdle /\ RelayIdle
AliasRestIdle == DispatchIdle /\ AckIdle /\ BroadcastIdle /\ CycleIdle /\ FileCycleIdle /\ ResyncIdle /\ LockIdle /\ RelayIdle
DispatchRestIdle == AliasIdle /\ AckIdle /\ BroadcastIdle /\ CycleIdle /\ FileCycleIdle /\ ResyncIdle /\ LockIdle /\ RelayIdle
AckRestIdle == AliasIdle /\ DispatchIdle /\ BroadcastIdle /\ CycleIdle /\ FileCycleIdle /\ ResyncIdle /\ LockIdle /\ RelayIdle
BroadcastRestIdle == AliasIdle /\ DispatchIdle /\ AckIdle /\ CycleIdle /\ FileCycleIdle /\ ResyncIdle /\ LockIdle /\ RelayIdle
CycleRestIdle == AliasIdle /\ DispatchIdle /\ AckIdle /\ BroadcastIdle /\ FileCycleIdle /\ ResyncIdle /\ LockIdle /\ RelayIdle
FileCycleRestIdle == AliasIdle /\ DispatchIdle /\ AckIdle /\ BroadcastIdle /\ CycleIdle /\ ResyncIdle /\ LockIdle /\ RelayIdle
ResyncRestIdle == AliasIdle /\ DispatchIdle /\ AckIdle /\ BroadcastIdle /\ CycleIdle /\ FileCycleIdle /\ LockIdle /\ RelayIdle
LockRestIdle == AliasIdle /\ DispatchIdle /\ AckIdle /\ BroadcastIdle /\ CycleIdle /\ FileCycleIdle /\ ResyncIdle /\ RelayIdle
RelayRestIdle == AliasIdle /\ DispatchIdle /\ AckIdle /\ BroadcastIdle /\ CycleIdle /\ FileCycleIdle /\ ResyncIdle /\ LockIdle

\* a line that carries frames only
NoNoise == fr_junk = <<>>

SerdesInit ==
    /\ rx_frame_received_signal = FALSE
    /\ rx_file_response_signal = FALSE
    /\ refresh_state_signal = FALSE
    /\ command_queue = <<>>
    /\ file_request_queue = <<>>
    /\ t_transmit_pc = "idle"
    /\ t_file_pc = "idle"
    /\ serdes_pub = {}
    /\ state_routed_since_clear = FALSE
    /\ file_routed_since_clear = FALSE
    /\ serdes_stop = FALSE
    /\ trigger_pass = 0
    /\ last_connected_pub = <<>>
    /\ serdes_in = <<>>

\* no mirror and no transfer in the scenario
MirrorIdle ==
    /\ reference_dict = <<>>
    /\ flat_dict = <<>>
    /\ ui_update_event = FALSE
    /\ mirror_pub = {}
    /\ last_push = {}
    /\ frontend_pub = {}
    /\ publisher_pc = "wait"
    /\ sleep_left = 0
    /\ since_nested_get = 0

XferIdle ==
    /\ xf_pc = "idle"
    /\ filesize = 0
    /\ offset = 0
    /\ file_data = <<>>
    /\ attempt = 0
    /\ file_response_event = FALSE
    /\ pending_file_response = NoResponse
    /\ xf_request = NoRequest
    /\ xf_requests = 0
    /\ xf_saved = <<>>
    /\ xf_outcome = None
    /\ xf_chunk_reqs = 0
    /\ dev_responses = 0

(***************************************************************************)
(* SpecFrame: the byte stream of frames built by write_frame, fed to the   *)
(* RX thread in arbitrary pieces                                           *)
(***************************************************************************)
MaxFrames == 2             \* frames per input stream
LongLen == 258             \* a payload whose length needs both length bytes
MaxPending == 3            \* bytes that pile up in the OS buffer between reads

LongPayload == [i \in 1..LongLen |-> IF i % 5 = 0 THEN START_CODE ELSE i % 256]
FramePayloads ==
    { <<>>, <<START_CODE>>, <<1, START_CODE, 0, 0>>, <<START_CODE, 0, 1, 9>>, LongPayload }
FrameInputs == UNION { [1..k -> FramePayloads] : k \in 0..MaxFrames }

FrameInit ==
    /\ PortConnectedInit
    /\ device_present = TRUE
    /\ os_in = <<>>
    /\ wire_out = <<>>
    /\ fr_sent \in FrameInputs
    /\ line = Concat([i \in 1..Len(fr_sent) |-> BuildFrame(fr_sent[i])])
    /\ SerdesInit /\ NoNoise /\ FnIdle /\ ScenarioIdle /\ MirrorIdle /\ XferIdle

FrameDeliver ==
    \E n \in (1..MaxPending) \cup {Len(line)} :
        /\ (os_in = <<>> \/ Len(os_in) + n <= MaxPending)
        /\ LineDeliver(n)

FrameNext == FrameDeliver \/ RxLoop \/ RxRead

SpecFrame == FrameInit /\ [][FrameNext]_vars

\* C2: framing round-trip. The RX machine enqueues only the payloads that were
\* framed, in order, and once every byte of the stream has been read it has
\* enqueued exactly p1..pk and holds no byte back.
FramingRoundTrip ==
    /\ IsPrefix(rx_queue, fr_sent)
    /\ (line = <<>> /\ os_in = <<>>) => (rx_queue = fr_sent /\ rx_buffer = <<>>)

FramingRoundTripWitness ==
    /\ line = <<>> /\ os_in = <<>>
    /\ Len(fr_sent) = 2
    /\ rx_queue = fr_sent
    /\ Len(fr_sent[1]) > 255
    /\ fr_sent[2] = <<START_CODE, 0, 1, 9>>


(***************************************************************************)
(* SpecResync: the RX machine reading arbitrary bytes, start codes and     *)
(* length bytes in any order, in arbitrary pieces                          *)
(***************************************************************************)
MaxStream == 4             \* bytes of an arbitrary stream
StreamBytes == {START_CODE, 0, 1, 119}
\* [AA BB EE 00 02 77 88 EE]
ExampleStream == <<170, 187, START_CODE, 0, 2, 119, 136, START_CODE>>
ResyncStreams == UNION { [1..k -> StreamBytes] : k \in 0..MaxStream } \cup {ExampleStream}

ResyncInit ==
    /\ PortConnectedInit
    /\ device_present = TRUE
    /\ os_in = <<>>
    /\ wire_out = <<>>
    /\ fr_sent = <<>>
    /\ rx_stream \in ResyncStreams
    /\ line = rx_stream
    /\ SerdesInit /\ NoNoise /\ FnIdle /\ MirrorIdle /\ XferIdle
    /\ ResyncRestIdle

SpecResync == ResyncInit /\ [][FrameNext]_vars

\* C36: after every pass of the RX framing machine the RX buffer is empty, or
\* starts with the start code and holds an incomplete frame (fewer than 3
\* bytes, or fewer than 3 + declared length bytes); bytes before the first
\* start code and buffers without a start code are gone, a lone trailing start
\* code stays. [AA BB EE 00 02 77 88 EE] gives the frame [77 88] and leaves [EE].
RxBufferResynced ==
    /\ \/ rx_buffer = <<>>
       \/ /\ rx_buffer[1] = START_CODE
          /\ \/ Len(rx_buffer) < 3
             \/ Len(rx_buffer) < 3 + rx_buffer[2] * 256 + rx_buffer[3]
    /\ (rx_stream = ExampleStream /\ line = <<>> /\ os_in = <<>>) =>
          (rx_queue = <<(<<119, 136>>)>> /\ rx_buffer = <<START_CODE>>)

RxBufferResyncedWitness ==
    /\ rx_stream = ExampleStream
    /\ line = <<>> /\ os_in = <<>>
    /\ rx_queue = <<(<<119, 136>>)>>
    /\ rx_buffer = <<START_CODE>>

(***************************************************************************)
(* SpecHeal: the RX machine reading a stream in which bytes other than the *)
(* start code precede each frame                                           *)
(***************************************************************************)
MaxJunk == 2               \* bytes of noise before a frame
JunkBytes == {0, 255}
JunkRuns == UNION { [1..k -> JunkBytes] : k \in 0..MaxJunk }
HealPayloads == { <<>>, <<START_CODE>>, <<1, START_CODE, 0, 0>> }
\* one frame, or two frames back to back
HealStreams == { <<p>> : p \in HealPayloads } \cup (HealPayloads \X HealPayloads)

HealInit ==
    /\ PortConnectedInit
    /\ device_present = TRUE
    /\ os_in = <<>>
    /\ wire_out = <<>>
    /\ fr_sent \in HealStreams
    /\ SerdesInit /\ MirrorIdle /\ XferIdle /\ FnIdle /\ ScenarioIdle
    /\ fr_junk \in [1..Len(fr_sent) -> JunkRuns]
    /\ line = Concat([i \in 1..Len(fr_sent) |-> fr_junk[i] \o BuildFrame(fr_sent[i])])

SpecHeal == HealInit /\ [][FrameNext]_vars

\* C14: framing self-heal. Bytes other than the start code placed before a
\* frame, in any split across reads, are dropped: the RX machine enqueues only
\* the payloads that were framed, in order, never a frame made of or holding
\* inserted bytes, and once the whole stream has been read it has enqueued
\* exactly the framed payloads.
FramingSelfHeal ==
    /\ Len(rx_queue) <= Len(fr_sent)
    /\ \A i \in 1..Len(rx_queue) : rx_queue[i] = fr_sent[i]
    /\ (line = <<>> /\ os_in = <<>>) => rx_queue = fr_sent

\* two frames, each behind the longest run of noise, were both emitted
FramingSelfHealWitness ==
    /\ line = <<>> /\ os_in = <<>>
    /\ Len(fr_sent) = 2
    /\ Len(fr_junk[1]) = MaxJunk /\ Len(fr_junk[2]) = MaxJunk
    /\ fr_sent[2] = <<1, START_CODE, 0, 0>>
    /\ rx_queue = fr_sent


(***************************************************************************)
(* CHUNKED FILE READ: FileRequestTestGUI._transfer_file                    *)
(* A byte string is kept run-length encoded: a sequence of runs            *)
(* [b |-> byte, n |-> count > 0] with no two equal neighbours, so that     *)
(* equal byte strings are equal values and len() is the sum of the counts. *)
(***************************************************************************)
MAX_CHUNK_SIZE == 16384    \* MAX_CHUNK_SIZE = 16384
max_retries == 3           \* max_retries = 3
MaxResponses == 3          \* file responses the device produces in one scenario

RECURSIVE BytesLen(_)
BytesLen(d) == IF d = <<>> THEN 0 ELSE Head(d).n + BytesLen(Tail(d))

\* bytes(n) filled with byte b
Bytes(n, b) == IF n = 0 THEN <<>> ELSE <<[b |-> b, n |-> n]>>

\* bytearray.extend / bytes concatenation
BytesCat(a, c) ==
    IF a = <<>> THEN c
    ELSE IF c = <<>> THEN a
    ELSE IF a[Len(a)].b = c[1].b
         THEN SubSeq(a, 1, Len(a) - 1)
              \o <<[b |-> c[1].b, n |-> a[Len(a)].n + c[1].n]>>
              \o Tail(c)
         ELSE a \o c

XferFilename == "x"        \* file_info.filename of the scenario
FileSizes == {0, 1, 2, 64, MAX_CHUNK_SIZE + 1}

\* read_request = NeuralMemFileRequest(file_access=NeuralMemFileAccess(...))
ReadRequest(fname, off, chunk_size) ==
    [filename |-> fname, offset |-> off, read_nwrite |-> TRUE,
     data |-> Bytes(chunk_size, 0)]

\* the test that accepts a response for the chunk at (fname, off)
ResponseAcceptedAnyOffset(response, fname, off) ==
    /\ response # NoResponse
    /\ BytesLen(response.data) > 0
    /\ response.filename = fname /\ response.read_nwrite
ResponseAccepted(response, fname, off) ==
    /\ response # NoResponse
    /\ BytesLen(response.data) > 0
    /\ response.filename = fname /\ response.offset = off /\ response.read_nwrite

\* while offset < filesize: ... success = False; for attempt in range(max_retries)
FirstAttemptCarried(a) == a % max_retries
FirstAttempt(a) == 0

XfWhile ==
    /\ xf_pc = "while"
    /\ IF offset < filesize
       THEN /\ attempt' = FirstAttempt(attempt)
            /\ xf_pc' = "request"
       ELSE /\ xf_pc' = "save"
            /\ UNCHANGED attempt
    /\ UNCHANGED <<filesize, offset, file_data, file_response_event,
                   pending_file_response, xf_request, xf_requests, xf_saved,
                   xf_outcome, xf_chunk_reqs, dev_responses>>
    /\ UNCHANGED <<portVars, linkVars, serdesVars, mirrorVars, statusVars, throttleVars, noiseVars, fnVars, callerVars, topicVars, scenarioVars>>

\* head of the for loop: either the attempts are used up (not success: return)
\* or the next request is built, the event and the pending response are cleared
\* and the request is published
XfRequest ==
    /\ xf_pc = "request"
    /\ IF attempt >= max_retries
       THEN /\ xf_pc' = "failed"
            /\ UNCHANGED <<file_response_event, pending_file_response, xf_request,
                           xf_requests, xf_chunk_reqs>>
       ELSE /\ xf_request' = ReadRequest(XferFilename, offset,
                                         Min(filesize - offset, MAX_CHUNK_SIZE))
            /\ file_response_event' = FALSE
            /\ pending_file_response' = NoResponse
            /\ xf_requests' = xf_requests + 1
            /\ xf_chunk_reqs' = xf_chunk_reqs + 1
            /\ xf_pc' = "wait"
    /\ UNCHANGED <<filesize, offset, file_data, attempt, xf_saved, xf_outcome,
                   dev_responses>>
    /\ UNCHANGED <<portVars, linkVars, serdesVars, mirrorVars, statusVars, throttleVars, noiseVars, fnVars, callerVars, topicVars, scenarioVars>>

\* if self.file_response_event.wait(timeout=chunk_timeout): ... else: timeout
XfWait ==
    /\ xf_pc = "wait"
    /\ IF file_response_event
       THEN IF ResponseAccepted(pending_file_response, XferFilename, offset)
            THEN /\ file_data' = BytesCat(file_data, pending_file_response.data)
                 /\ offset' = offset + BytesLen(pending_file_response.data)
                 /\ xf_outcome' = "accepted"
                 /\ xf_chunk_reqs' = 0
                 /\ xf_pc' = "while"
                 /\ UNCHANGED attempt
            ELSE /\ xf_outcome' =
                      IF pending_file_response # NoResponse
                         /\ BytesLen(pending_file_response.data) > 0
                      THEN "mismatch" ELSE "empty"
                 /\ attempt' = attempt + 1
                 /\ xf_pc' = "request"
                 /\ UNCHANGED <<file_data, offset, xf_chunk_reqs>>
       ELSE /\ xf_outcome' = "timeout"
            /\ attempt' = attempt + 1
            /\ xf_pc' = "request"
            /\ UNCHANGED <<file_data, offset, xf_chunk_reqs>>
    /\ UNCHANGED <<filesize, file_response_event, pending_file_response, xf_request,
                   xf_requests, xf_saved, dev_responses>>
    /\ UNCHANGED <<portVars, linkVars, serdesVars, mirrorVars, statusVars, throttleVars, noiseVars, fnVars, callerVars, topicVars, scenarioVars>>

\* with open(local_path, 'wb') as f: f.write(file_data)
XfSave ==
    /\ xf_pc = "save"
    /\ xf_saved' = <<file_data>>
    /\ xf_pc' = "done"
    /\ UNCHANGED <<filesize, offset, file_data, attempt, file_response_event,
                   pending_file_response, xf_request, xf_requests, xf_outcome,
                   xf_chunk_reqs, dev_responses>>
    /\ UNCHANGED <<portVars, linkVars, serdesVars, mirrorVars, statusVars, throttleVars, noiseVars, fnVars, callerVars, topicVars, scenarioVars>>

\* _on_file_response with a file_access payload (runs on the publisher's thread)
OnFileResponse(response) ==
    /\ xf_pc \in {"request", "wait"}
    /\ dev_responses > 0
    /\ dev_responses' = dev_responses - 1
    /\ pending_file_response' = response
    /\ file_response_event' = TRUE
    /\ UNCHANGED <<xf_pc, filesize, offset, file_data, attempt, xf_request,
                   xf_requests, xf_saved, xf_outcome, xf_chunk_reqs>>
    /\ UNCHANGED <<portVars, linkVars, serdesVars, mirrorVars, statusVars, throttleVars, noiseVars, fnVars, callerVars, topicVars, scenarioVars>>

\* what the device may answer to the request in flight: the data asked for, cut
\* short, empty or over-long, or a response for another file, another offset or
\* with the write flag
DeviceResponses ==
    LET asked == BytesLen(xf_request.data)
        good(d) == [filename |-> xf_request.filename, offset |-> xf_request.offset,
                    read_nwrite |-> TRUE, data |-> d]
    IN  { good(Bytes(n, b)) : n \in {0, 1, asked, asked + 1}, b \in {1, 2} }
        \cup { [good(Bytes(asked, 1)) EXCEPT !.filename = "y"],
               [good(Bytes(asked, 1)) EXCEPT !.offset = xf_request.offset + 64],
               [good(Bytes(asked, 1)) EXCEPT !.read_nwrite = FALSE] }

XferInit ==
    /\ xf_pc = "while"
    /\ filesize \in FileSizes
    /\ offset = 0
    /\ file_data = <<>>
    /\ attempt = 0
    /\ file_response_event = FALSE
    /\ pending_file_response = NoResponse
    /\ xf_request = NoRequest
    /\ xf_requests = 0
    /\ xf_saved = <<>>
    /\ xf_outcome = None
    /\ xf_chunk_reqs = 0
    /\ dev_responses = MaxResponses
    /\ PortInit /\ LinkInit /\ SerdesInit /\ NoNoise /\ FnIdle /\ ScenarioIdle /\ MirrorIdle

XferRespond == \E r \in DeviceResponses : OnFileResponse(r)

XferNext == XfWhile \/ XfRequest \/ XfWait \/ XfSave \/ XferRespond

SpecXfer == XferInit /\ [][XferNext]_vars


\* a response correlates with a request: same file, same offset, read flag, data
Correlates(response, request) ==
    /\ response.filename = request.filename
    /\ response.offset = request.offset
    /\ response.read_nwrite
    /\ BytesLen(response.data) > 0

\* C8: chunked read correlation. The request in flight is always for the current
\* (filename, offset); a wait that ends with a response correlating with the
\* request appends its data and advances offset by its length; a wait that ends
\* any other way (mismatch, empty data, no response, timeout) leaves offset and
\* the buffer unchanged and goes back to request the same chunk; offset and the
\* buffer change in no other step.
XferCorrelation ==
    /\ [](xf_pc = "wait" =>
            (xf_request.filename = XferFilename /\ xf_request.offset = offset
             /\ xf_request.read_nwrite))
    /\ [][ (xf_pc = "wait" /\ xf_pc' # "wait") =>
             IF file_response_event /\ Correlates(pending_file_response, xf_request)
             THEN /\ offset' = offset + BytesLen(pending_file_response.data)
                  /\ file_data' = BytesCat(file_data, pending_file_response.data)
             ELSE /\ offset' = offset
                  /\ file_data' = file_data
                  /\ xf_pc' = "request" ]_vars
    /\ [][ (offset' # offset \/ file_data' # file_data) =>
             (xf_pc = "wait" /\ file_response_event
              /\ Correlates(pending_file_response, xf_request)) ]_vars

\* scenario C: the read at offset 0 was answered with offset 64, rejected, and the
\* same chunk is in flight a second time
XferCorrelationWitness ==
    /\ filesize = 64 /\ offset = 0
    /\ xf_outcome = "mismatch"
    /\ xf_pc = "wait" /\ xf_requests = 2
    /\ xf_request.offset = 0
    /\ file_response_event
    /\ pending_file_response.offset = 0
    /\ BytesLen(pending_file_response.data) = 64

\* C9: bounded retries. No chunk is requested more than max_retries times; the
\* transfer is abandoned exactly when max_retries requests for one chunk have
\* failed, after which nothing is requested and nothing is written; the attempt
\* counter of a chunk that has not been requested yet is zero.
XferRetryBound ==
    /\ [](xf_chunk_reqs <= max_retries /\ attempt <= max_retries)
    /\ [](xf_pc = "failed" => (xf_chunk_reqs = max_retries /\ xf_saved = <<>>))
    /\ []((xf_pc = "request" /\ xf_chunk_reqs = 0) => attempt = 0)
    /\ [][ xf_pc = "failed" =>
             (xf_pc' = "failed" /\ xf_requests' = xf_requests /\ xf_saved' = xf_saved) ]_vars
    /\ [][ xf_pc' = "failed" => (xf_pc = "failed" \/ attempt = max_retries) ]_vars

\* the second chunk of a file used up its three attempts after the first chunk
\* had been read at its second attempt
XferRetryBoundWitness ==
    /\ xf_pc = "failed"
    /\ offset > 0
    /\ xf_requests = max_retries + 2

\* C10: completion. The buffer length equals offset, and a transfer that finishes
\* has offset = filesize and has saved exactly filesize bytes.
XferCompletion ==
    /\ BytesLen(file_data) = offset
    /\ xf_pc = "done" =>
          (offset = filesize /\ xf_saved = <<file_data>> /\ BytesLen(file_data) = filesize)


(***************************************************************************)
(* Mirror: DictViewerAggregator, match_type, FlatDict.                     *)
(* A Python value is a node [t, v, c, d]: t its type name, v the payload   *)
(* of a primitive (bools as 0/1, strings by an identifying number), c the  *)
(* elements of a list, d the key -> child map of a dict.  A path is a      *)
(* tuple of keys.                                                          *)
(***************************************************************************)
EmptyDict == [k \in {} |-> 0]
Prim(t, v) == [t |-> t, v |-> v, c |-> <<>>, d |-> EmptyDict]
PyBool(b) == Prim("bool", IF b THEN 1 ELSE 0)
PyInt(n) == Prim("int", n)
PyStr(n) == Prim("str", n)
PyFloat(n) == Prim("float", n)
PyList(elems) == [t |-> "list", v |-> 0, c |-> elems, d |-> EmptyDict]
PyDict(f) == [t |-> "dict", v |-> 0, c |-> <<>>, d |-> f]

\* isinstance(value, type(example)) on type names: bool is a subclass of int
IsInstance(vt, et) == vt = et \/ (vt = "bool" /\ et = "int")

\* a type object, kept with the instance that calling it creates
PyType(instance) == [t |-> "type", v |-> 0, c |-> <<instance>>, d |-> EmptyDict]

RECURSIVE match_type(_, _)
match_type(value, example_arg) ==
    LET example == IF example_arg.t = "type" THEN example_arg.c[1] ELSE example_arg IN
    IF ~IsInstance(value.t, example.t) THEN FALSE
    ELSE IF value.t = "dict"
    THEN /\ DOMAIN value.d = DOMAIN example.d
         /\ \A k \in DOMAIN value.d : match_type(value.d[k], example.d[k])
    ELSE IF value.t \in {"list", "tuple"}
    THEN /\ Len(value.c) = Len(example.c)
         /\ \A i \in 1..Len(value.c) : match_type(value.c[i], example.c[i])
    ELSE TRUE

\* a flatten that does not descend into nested dicts
FlattenItemsShallow(nested) ==
    { << <<k>>, nested.d[k] >> : k \in DOMAIN nested.d }

\* FlatDict.flatten as the set of its (path, leaf) items
RECURSIVE FlattenItems(_)
FlattenItems(nested) ==
    UNION { IF nested.d[k].t = "dict"
            THEN { << <<k>> \o it[1], it[2] >> : it \in FlattenItems(nested.d[k]) }
            ELSE { << <<k>>, nested.d[k] >> }
          : k \in DOMAIN nested.d }

flatten(nested) ==
    LET items == FlattenItems(nested)
    IN  [path \in {it[1] : it \in items} |-> (CHOOSE it \in items : it[1] = path)[2]]

RECURSIVE UnflattenItems(_)
UnflattenItems(items) ==
    PyDict([k \in {it[1][1] : it \in items} |->
              LET sub == {it \in items : it[1][1] = k}
              IN  IF \E it \in sub : Len(it[1]) = 1
                  THEN (CHOOSE it \in sub : Len(it[1]) = 1)[2]
                  ELSE UnflattenItems({ <<Tail(it[1]), it[2]>> : it \in sub })])

unflatten(flat) == UnflattenItems({ <<path, flat[path]>> : path \in DOMAIN flat })

\* pull(): nested snapshot of the current flat map
pull == unflatten(flat_dict)

\* one pubsub message of the mirror
Msg(topic, path, payload) == [topic |-> topic, path |-> path, payload |-> payload]
\* one leaf proposal handed to _update_flattened_dict by operation op
Proposal(op, path, value) == [op |-> op, path |-> path, value |-> value]

\* an update that checks the path but not the type
update_flattened_dict_unchecked(flat, path, new_val) ==
    IF path \notin DOMAIN flat THEN [flat |-> flat, updated |-> FALSE]
    ELSE [flat |-> [flat EXCEPT ![path] = new_val], updated |-> TRUE]

\* _update_flattened_dict: the new flat map and whether the leaf was written
update_flattened_dict(flat, path, new_val) ==
    IF path \notin DOMAIN flat THEN [flat |-> flat, updated |-> FALSE]
    ELSE IF ~match_type(new_val, flat[path]) THEN [flat |-> flat, updated |-> FALSE]
    ELSE [flat |-> [flat EXCEPT ![path] = new_val], updated |-> TRUE]

\* _push_no_publish: the loop over the items of the flattened update
RECURSIVE push_no_publish(_, _, _)
push_no_publish(flat, flat_update, todo) ==
    IF todo = {} THEN [flat |-> flat, updated_paths |-> {}]
    ELSE LET path == CHOOSE x \in todo : TRUE
             r == update_flattened_dict(flat, path, flat_update[path])
             rest == push_no_publish(r.flat, flat_update, todo \ {path})
         IN  [flat |-> rest.flat,
              updated_paths |-> rest.updated_paths \cup (IF r.updated THEN {path} ELSE {})]


\* ---- the mirror's operations ----
SoaLen == 4
BoolList(n, b) == PyList([i \in 1..n |-> PyBool(b)])
IntList(n, x) == PyList([i \in 1..n |-> PyInt(x)])
CountPath == <<"count">>
SoaPath == <<"command", "soa_enable">>
ReferenceDicts ==
    { PyDict(("count" :> PyInt(0))
             @@ ("command" :> PyDict("soa_enable" :> BoolList(SoaLen, FALSE)))) }
EditablePaths == {SoaPath, <<"bogus">>}
ProposalValues ==
    { PyInt(1), PyBool(TRUE), PyStr(0),
      BoolList(SoaLen, TRUE), BoolList(SoaLen - 1, TRUE), IntList(SoaLen, 1) }
ProposalPaths == {CountPath, SoaPath, <<"command">>, <<"bogus">>}
NestedUpdates ==
    { PyDict("count" :> v) : v \in ProposalValues }
    \cup { PyDict("command" :> PyDict("soa_enable" :> v)) : v \in ProposalValues }
    \cup { PyDict(("count" :> v) @@ ("command" :> PyDict("soa_enable" :> w)))
           : v \in {PyInt(1), PyStr(0)},
             w \in {BoolList(SoaLen, TRUE), BoolList(SoaLen - 1, TRUE)} }
    \cup { PyDict("command" :> PyInt(1)),
           PyDict("bogus" :> PyInt(1)),
           PyDict("count" :> PyDict("x" :> PyInt(1))) }

\* push_path(path, new_val); op names the entry point that called it
push_path(op, path, new_val) ==
    LET r == update_flattened_dict(flat_dict, path, new_val)
    IN  /\ flat_dict' = r.flat
        /\ mirror_pub' = IF r.updated THEN {Msg("frontend.set", path, new_val)} ELSE {}
        /\ last_push' = {Proposal(op, path, new_val)}
        /\ frontend_pub' = {}
        /\ UNCHANGED <<reference_dict, ui_update_event>>
        /\ UNCHANGED <<portVars, linkVars, serdesVars, xferVars, statusVars, throttleVars, noiseVars, fnVars, callerVars, topicVars, scenarioVars>>

\* push(nested_update); op names the entry point that called it
push(op, nested_update) ==
    LET flat_update == flatten(nested_update)
        r == push_no_publish(flat_dict, flat_update, DOMAIN flat_update)
    IN  /\ flat_dict' = r.flat
        /\ mirror_pub' = { Msg("frontend.set", path, r.flat[path]) : path \in r.updated_paths }
        /\ last_push' = { Proposal(op, path, flat_update[path]) : path \in DOMAIN flat_update }
        /\ frontend_pub' = {}
        /\ UNCHANGED <<reference_dict, ui_update_event>>
        /\ UNCHANGED <<portVars, linkVars, serdesVars, xferVars, statusVars, throttleVars, noiseVars, fnVars, callerVars, topicVars, scenarioVars>>

PushPath == \E path \in ProposalPaths, new_val \in ProposalValues :
                push_path("push_path", path, new_val)

Push == \E nested_update \in NestedUpdates : push("push", nested_update)

\* _on_external_path_publish: subscribed for the paths of the flat map only
OnExternalPathPublish ==
    \E path \in DOMAIN flat_dict, payload \in ProposalValues :
        push_path("entries.set", path, payload)

\* _on_external_nested_publish
OnExternalNestedPublish ==
    \E payload \in NestedUpdates : push("nested.set", payload)

\* a subscription to every path of the flat map, editable or not
FrontendSubscriptionsAll == DOMAIN flat_dict

\* __init__: frontend.get.<path> is subscribed for each editable path that is a
\* path of the flat map; any other editable path only gets a warning
FrontendSubscriptions == EditablePaths \cap DOMAIN flat_dict

\* _on_frontend_widget_publish(path, payload)
on_frontend_widget_publish(path, payload) ==
    LET r == update_flattened_dict(flat_dict, path, payload)
    IN  /\ flat_dict' = r.flat
        /\ mirror_pub' = IF r.updated THEN {Msg("entries.get", path, payload)} ELSE {}
        /\ ui_update_event' = (ui_update_event \/ r.updated)
        /\ last_push' = {Proposal("frontend.get", path, payload)}

\* a widget (or anyone) publishes payload on frontend.get.<path>: the handler
\* runs when the path was subscribed, otherwise the message has no listener
OnFrontendWidgetPublish ==
    \E path \in ProposalPaths, payload \in ProposalValues :
        /\ frontend_pub' = {Msg("frontend.get", path, payload)}
        /\ IF path \in FrontendSubscriptions
           THEN on_frontend_widget_publish(path, payload)
           ELSE /\ mirror_pub' = {}
                /\ last_push' = {}
                /\ UNCHANGED <<flat_dict, ui_update_event>>
        /\ UNCHANGED reference_dict
        /\ UNCHANGED <<portVars, linkVars, serdesVars, xferVars, statusVars, throttleVars, noiseVars, fnVars, callerVars, topicVars, scenarioVars>>

\* ui_max_publish_rate_s in ticks
ThrottleTicks == 2

\* _ui_update_publisher_thread: wait_ui_update() returns, the snapshot is
\* published on nested.get and the thread starts _stop.wait(ui_max_publish_rate_s)
UiUpdatePublisher ==
    /\ publisher_pc = "wait"
    /\ ui_update_event
    /\ ui_update_event' = FALSE
    /\ mirror_pub' = {Msg("nested.get", <<>>, pull)}
    /\ last_push' = {}
    /\ frontend_pub' = {}
    /\ publisher_pc' = "sleep"
    /\ sleep_left' = ThrottleTicks
    /\ since_nested_get' = 0
    /\ UNCHANGED <<reference_dict, flat_dict>>
    /\ UNCHANGED <<portVars, linkVars, serdesVars, xferVars, statusVars, noiseVars, fnVars, callerVars, topicVars, scenarioVars>>

\* _ui_update_publisher_thread: _stop.wait(ui_max_publish_rate_s) timed out
\* and the loop goes back to wait_ui_update()
PublisherRearm ==
    /\ publisher_pc = "sleep"
    /\ sleep_left = 0
    /\ publisher_pc' = "wait"
    /\ UNCHANGED <<sleep_left, since_nested_get, mirrorVars>>
    /\ UNCHANGED <<portVars, linkVars, serdesVars, xferVars, statusVars, noiseVars, fnVars, callerVars, topicVars, scenarioVars>>

\* one tick of time passes
Tick ==
    /\ sleep_left' = IF sleep_left > 0 THEN sleep_left - 1 ELSE 0
    /\ since_nested_get' = Min(since_nested_get + 1, ThrottleTicks)
    /\ UNCHANGED <<publisher_pc, mirrorVars>>
    /\ UNCHANGED <<portVars, linkVars, serdesVars, xferVars, statusVars, noiseVars, fnVars, callerVars, topicVars, scenarioVars>>

\* wait_ui_update() called by a user of the mirror while the event is set
WaitUiUpdate ==
    /\ ui_update_event
    /\ ui_update_event' = FALSE
    /\ mirror_pub' = {}
    /\ last_push' = {}
    /\ frontend_pub' = {}
    /\ UNCHANGED <<reference_dict, flat_dict>>
    /\ UNCHANGED <<portVars, linkVars, serdesVars, xferVars, statusVars, throttleVars, noiseVars, fnVars, callerVars, topicVars, scenarioVars>>

\* the mirror after __init__: the initial entries.set publishes come back to the
\* mirror's own entries.set subscription
MirrorConstructed ==
    /\ reference_dict \in ReferenceDicts
    /\ flat_dict = flatten(reference_dict)
    /\ ui_update_event = FALSE
    /\ mirror_pub =
          { Msg("entries.set", path, flat_dict[path]) : path \in DOMAIN flat_dict }
          \cup { Msg("nested.get", <<>>, unflatten(flat_dict)) }
          \cup { Msg("frontend.set", path, flat_dict[path]) : path \in DOMAIN flat_dict }
    /\ last_push = { Proposal("entries.set", path, flat_dict[path]) : path \in DOMAIN flat_dict }
    /\ frontend_pub = {}
    /\ publisher_pc = "wait"
    /\ sleep_left = 0
    /\ since_nested_get = 0

MirrorInit ==
    /\ MirrorConstructed
    /\ PortInit /\ LinkInit /\ SerdesInit /\ NoNoise /\ FnIdle /\ ScenarioIdle /\ XferIdle

MirrorNext ==
    \/ PushPath
    \/ Push
    \/ OnExternalPathPublish
    \/ OnExternalNestedPublish
    \/ OnFrontendWidgetPublish
    \/ UiUpdatePublisher
    \/ PublisherRearm
    \/ Tick
    \/ WaitUiUpdate

SpecMirror == MirrorInit /\ [][MirrorNext]_vars

\* the flat map of the reference record as it was at construction
Template == flatten(reference_dict)

\* a leaf proposal that must be rejected: unknown path, or a value that fails
\* match_type against the template leaf or against the current leaf
Rejectable(pr) ==
    \/ pr.path \notin DOMAIN Template
    \/ ~match_type(pr.value, Template[pr.path])
    \/ ~match_type(pr.value, flat_dict[pr.path])

\* C5: every mirror operation (push, push_path, entries.set, nested.set,
\* frontend.get) leaves the flat map's paths unchanged, and for each of its leaf
\* proposals that has an unknown path or a non-matching value it leaves the
\* value at that path unchanged, publishes no frontend.set or entries.get for the
\* path, and (for a frontend edit) does not raise the ui-update event.
MirrorRejects ==
    [][ /\ DOMAIN flat_dict' = DOMAIN flat_dict
        /\ \A pr \in last_push' :
              Rejectable(pr) =>
                 /\ pr.path \in DOMAIN flat_dict => flat_dict'[pr.path] = flat_dict[pr.path]
                 /\ ~ \E msg \in mirror_pub' :
                        msg.path = pr.path /\ msg.topic \in {"frontend.set", "entries.get"}
                 /\ pr.op = "frontend.get" => ui_update_event' = ui_update_event ]_vars

\* scenario E inside a nested.set that also carries an acceptable leaf: the
\* 3-element list was proposed for soa_enable and refused, count was written
MirrorRejectsWitness ==
    /\ Proposal("nested.set", SoaPath, BoolList(SoaLen - 1, TRUE)) \in last_push
    /\ Proposal("nested.set", CountPath, PyInt(1)) \in last_push
    /\ flat_dict[CountPath] = PyInt(1)
    /\ flat_dict[SoaPath] = BoolList(SoaLen, TRUE)
    /\ mirror_pub = {Msg("frontend.set", CountPath, PyInt(1))}

\* C35: push(nested_update) applies a partial or full update leaf by leaf:
\* every leaf of the update whose path is in the template and whose value
\* type-matches the template leaf is written, every other leaf of the update
\* is skipped, leaves absent from the update keep their value, and
\* frontend.set.<path> is published for each written path and for no other.
PushAppliesLeafByLeaf ==
    [][ (last_push' # {} /\ \A pr \in last_push' : pr.op = "push") =>
          /\ \A pr \in last_push' :
                IF pr.path \in DOMAIN Template /\ match_type(pr.value, Template[pr.path])
                THEN /\ flat_dict'[pr.path] = pr.value
                     /\ Msg("frontend.set", pr.path, pr.value) \in mirror_pub'
                ELSE /\ pr.path \in DOMAIN flat_dict =>
                           flat_dict'[pr.path] = flat_dict[pr.path]
                     /\ \A msg \in mirror_pub' : msg.path # pr.path
          /\ \A path \in DOMAIN flat_dict :
                (\A pr \in last_push' : pr.path # path) =>
                    flat_dict'[path] = flat_dict[path]
          /\ \A msg \in mirror_pub' :
                /\ msg.topic = "frontend.set"
                /\ \E pr \in last_push' : pr.path = msg.path /\ pr.value = msg.payload
        ]_vars

\* C6: the template is immutable: whether a leaf proposal for a template path
\* is accepted depends only on the construction-time template leaf, never on
\* values pushed earlier: it is written into the flat map exactly when it
\* matches the template leaf.
MirrorTemplateImmutable ==
    [][ \A pr \in last_push' :
           pr.path \in DOMAIN Template =>
              (match_type(pr.value, Template[pr.path]) <=> flat_dict'[pr.path] = pr.value) ]_vars

SnapshotThrottle ==
    [][ (publisher_pc = "wait" /\ publisher_pc' = "sleep") =>
            since_nested_get >= ThrottleTicks ]_vars


(***************************************************************************)
(* SpecLifecycle: the supervisor, the TX and RX workers, connect() and     *)
(* disconnect() callers, and a device that can be unplugged and replugged  *)
(***************************************************************************)
LifecyclePayloads == {<<7>>}
MaxTxPending == 2          \* frames callers leave waiting in the lifecycle scenarios

LifecycleInit ==
    /\ PortInit /\ LinkInit /\ SerdesInit /\ NoNoise /\ FnIdle /\ ScenarioIdle /\ MirrorIdle /\ XferIdle

LifecycleWrite ==
    \E payload \in LifecyclePayloads :
        /\ Len(tx_queue) < MaxTxPending
        /\ WriteFrame(payload)

LifecycleNext ==
    \/ Connect
    \/ Disconnect
    \/ PortClose
    \/ LifecycleWrite
    \/ TxLoop
    \/ TxGet
    \/ TxWrite
    \/ RxLoop
    \/ RxRead
    \/ PortCheck
    \/ PortJoinTx
    \/ PortJoinRx
    \/ PortDisconnect
    \/ PortFlush
    \/ PortStart
    \/ PortFlow
    \/ Unplug
    \/ Replug

SpecLifecycle == LifecycleInit /\ [][LifecycleNext]_vars

\* C3: every transition to connected starts fresh workers. Whenever the
\* supervisor, having opened the handle and flushed, reaches the start of the
\* workers with both worker threads not running (never started, or ended and
\* joined), the step leaves a running TX worker and a running RX worker and
\* the supervisor carries on.
ReconnectStartsWorkers ==
    [][ (port_pc = "start" /\ ~ThreadRunning(tx_pc) /\ ~ThreadRunning(rx_pc)
         /\ port_pc' # "start")
        => (port_pc' = "flow" /\ ThreadRunning(tx_pc') /\ ThreadRunning(rx_pc')) ]_vars


\* C21: errors never escape a worker thread. Through any sequence of
\* connects, disconnects, reconnects and serial I/O errors the supervisor
\* thread does not end before the stop signal is set (the TX and RX workers
\* end only through their loop condition).
WorkersOutliveErrors ==
    port_pc \in {"done", "dead"} => stop_signal


(***************************************************************************)
(* SpecTxQueue: write_frame callers, recover() callers and the TX worker   *)
(* on a connected port                                                     *)
(***************************************************************************)
TxQueueInit ==
    /\ PortConnectedInit /\ LinkInit /\ SerdesInit /\ NoNoise /\ FnIdle /\ ScenarioIdle /\ MirrorIdle /\ XferIdle

TxQueueWrite == \E payload \in LifecyclePayloads : WriteFrame(payload)

TxQueueNext ==
    \/ TxQueueWrite
    \/ RecoverCall
    \/ RecoverIter
    \/ TxLoop
    \/ TxGet
    \/ TxWrite

SpecTxQueue == TxQueueInit /\ [][TxQueueNext]_vars

\* C4: the TX queue never holds more than 8 entries, and a step taken while it
\* holds 8 either is the TX worker taking the head or leaves the queue, its
\* frames and their order, exactly as it was; a recover() pass that finds the
\* queue full still completes.
TxQueueBounded ==
    /\ [](Len(tx_queue) <= TX_QUEUE_MAX)
    /\ [][ Len(tx_queue) = TX_QUEUE_MAX =>
             \/ tx_queue' = tx_queue
             \/ (tx_pc = "get" /\ tx_pc' = "write" /\ tx_queue' = Tail(tx_queue)) ]_vars
    /\ [][ (Len(tx_queue) = TX_QUEUE_MAX /\ rec_pc = "iter" /\ rec_i < RecoverAttempts
            /\ rec_i' # rec_i)
           => (rec_i' = rec_i + 1 /\ tx_queue' = tx_queue) ]_vars

\* recover() has made one pass on a queue full of frames: its 0x00 is nowhere
\* (not queued, not held by the TX worker, not written), so it was dropped
TxQueueBoundedWitness ==
    /\ Len(tx_queue) = TX_QUEUE_MAX
    /\ \A i \in 1..Len(tx_queue) : tx_queue[i] = BuildFrame(<<7>>)
    /\ rec_pc = "iter" /\ rec_i = 1
    /\ tx_item = <<>> /\ wire_out = <<>>

(***************************************************************************)
(* SpecRecover: recover() beside the RX worker, a sending device, the TX   *)
(* worker and a consumer calling read_frame (the Serdes receive worker)    *)
(***************************************************************************)
RecoverInit ==
    /\ PortConnectedInit /\ LinkInit /\ SerdesInit /\ NoNoise /\ FnIdle /\ ScenarioIdle /\ MirrorIdle /\ XferIdle

RecoverDeviceSend == \E payload \in PortPayloads : DeviceSend(payload)

RecoverNext ==
    \/ RecoverCall
    \/ RecoverIter
    \/ RecoverDeviceSend
    \/ RxLoop
    \/ RxRead
    \/ ReadFrame
    \/ ClearReceiveBuffer
    \/ TxLoop
    \/ TxGet
    \/ TxWrite

SpecRecover == RecoverInit /\ [][RecoverNext]_vars

\* C7: any inbound frame terminates recover(): once the RX worker has completed
\* a frame while recover() is looping, recover() makes no further pass that
\* injects a 0x00 byte.
RecoverStopsOnFrame ==
    [][ (rec_pc = "iter" /\ rec_seen) => rec_i' = rec_i ]_vars


(***************************************************************************)
(* SERDES: HostDeviceStateSerdes workers on a connected port               *)
(***************************************************************************)
\* encoded Communication messages, told apart by the oneof member they carry
EncNodeState == <<10>>
EncDebug == <<18>>
EncFileRequest == <<26>>
EncEmpty == <<>>
EncGarbage == <<255>>
SerdesFrames == {EncNodeState, EncDebug, EncFileRequest, EncEmpty, EncGarbage}

SERDES_QUEUE_MAX == 16     \* Queue(maxsize=16)
MaxCommands == 1           \* commands and file requests callers leave waiting
MaxInbound == 1            \* completed frames waiting for the receive worker

\* Communication().parse(frame) and betterproto.which_one_of(comm, "payload")
WhichOneOf(frame) ==
    IF frame = EncNodeState THEN "node_state"
    ELSE IF frame = EncFileRequest THEN "neural_mem_request"
    ELSE IF frame = EncDebug THEN "debug_message"
    ELSE IF frame = EncEmpty THEN ""
    ELSE "decode_error"

\* a receive worker that takes any decoded frame for the state acknowledgement
SetsStateAckAnyFrame(which) == which # "decode_error"
\* the branches of _receive_thread that set each acknowledgement
SetsStateAck(which) == which = "node_state"
SetsFileAck(which) == which = "neural_mem_request"

\* _receive_thread: one frame taken with read_frame, decoded and routed
SerdesReceive ==
    /\ rx_queue # <<>>
    /\ LET which == WhichOneOf(Head(rx_queue))
       IN  /\ rx_queue' = Tail(rx_queue)
           /\ serdes_pub' = IF which = "node_state" THEN {"status"}
                            ELSE IF which = "neural_mem_request" THEN {"file_response"}
                            ELSE IF which = "debug_message" THEN {"debug"}
                            ELSE {}
           /\ rx_frame_received_signal' = (rx_frame_received_signal \/ SetsStateAck(which))
           /\ rx_file_response_signal' = (rx_file_response_signal \/ SetsFileAck(which))
           /\ state_routed_since_clear' = (state_routed_since_clear \/ which = "node_state")
           /\ file_routed_since_clear' =
                 (file_routed_since_clear \/ which = "neural_mem_request")
    /\ UNCHANGED <<refresh_state_signal, command_queue, file_request_queue,
                   t_transmit_pc, t_file_pc>>
    /\ UNCHANGED <<allowing_connections, port, port_connected, port_error, stop_signal,
                   tx_queue, rx_buffer, rx_clear_signal, port_pc, tx_pc, tx_item, rx_pc,
                   rec_pc, rec_i, rec_seen>>
    /\ UNCHANGED <<linkVars, mirrorVars, xferVars, statusVars, throttleVars, noiseVars, fnVars, callerVars, topicVars, scenarioVars>>

\* _transmit_thread: wake (signal or poll timeout), take a command or the empty
\* default, clear the state ack and hand the encoded message to write_frame
TransmitSend ==
    /\ t_transmit_pc = "idle"
    /\ Len(tx_queue) < MaxTxPending
    /\ refresh_state_signal' = FALSE
    /\ IF ~port_connected
       THEN UNCHANGED <<command_queue, rx_frame_received_signal,
                        state_routed_since_clear, tx_queue, t_transmit_pc>>
       ELSE /\ command_queue' = IF command_queue = <<>> THEN <<>> ELSE Tail(command_queue)
            /\ rx_frame_received_signal' = FALSE
            /\ state_routed_since_clear' = FALSE
            /\ write_frame(EncNodeState)
            /\ t_transmit_pc' = "wait"
    /\ UNCHANGED <<rx_file_response_signal, file_request_queue, t_file_pc,
                   serdes_pub, file_routed_since_clear>>
    /\ UNCHANGED <<allowing_connections, port, port_connected, port_error, stop_signal,
                   rx_buffer, rx_clear_signal, rx_queue, port_pc, tx_pc, tx_item, rx_pc,
                   rec_pc, rec_i, rec_seen>>
    /\ UNCHANGED <<linkVars, mirrorVars, xferVars, statusVars, throttleVars, noiseVars, fnVars, callerVars, topicVars, scenarioVars>>

\* rx_frame_received_signal.wait(rx_timeout_s) returns True
TransmitAcked ==
    /\ t_transmit_pc = "wait"
    /\ rx_frame_received_signal
    /\ t_transmit_pc' = "idle"
    /\ UNCHANGED <<rx_frame_received_signal, rx_file_response_signal, refresh_state_signal,
                   command_queue, file_request_queue, t_file_pc, serdes_pub,
                   state_routed_since_clear, file_routed_since_clear>>
    /\ UNCHANGED <<portVars, linkVars, mirrorVars, xferVars, statusVars, throttleVars, noiseVars, fnVars, callerVars, topicVars, scenarioVars>>

\* a worker that calls recover() after every timeout, connected or not
TransmitTimeoutAlways ==
    /\ t_transmit_pc = "wait"
    /\ ~rx_frame_received_signal
    /\ rec_pc # "iter"
    /\ rec_pc' = "iter" /\ rec_i' = 0 /\ rec_seen' = FALSE
    /\ t_transmit_pc' = "recover"
    /\ UNCHANGED <<rx_frame_received_signal, rx_file_response_signal, refresh_state_signal,
                   command_queue, file_request_queue, t_file_pc, serdes_pub,
                   state_routed_since_clear, file_routed_since_clear>>
    /\ UNCHANGED <<allowing_connections, port, port_connected, port_error, stop_signal,
                   tx_queue, rx_buffer, rx_clear_signal, rx_queue, port_pc, tx_pc,
                   tx_item, rx_pc>>
    /\ UNCHANGED <<linkVars, mirrorVars, xferVars, statusVars, throttleVars, noiseVars, fnVars, callerVars, topicVars, scenarioVars>>

\* the wait times out: recover() when the port is connected
TransmitTimeout ==
    /\ t_transmit_pc = "wait"
    /\ ~rx_frame_received_signal
    /\ rec_pc # "iter"
    /\ IF port_connected
       THEN /\ rec_pc' = "iter" /\ rec_i' = 0 /\ rec_seen' = FALSE
            /\ t_transmit_pc' = "recover"
       ELSE /\ t_transmit_pc' = "idle"
            /\ UNCHANGED <<rec_pc, rec_i, rec_seen>>
    /\ UNCHANGED <<rx_frame_received_signal, rx_file_response_signal, refresh_state_signal,
                   command_queue, file_request_queue, t_file_pc, serdes_pub,
                   state_routed_since_clear, file_routed_since_clear>>
    /\ UNCHANGED <<allowing_connections, port, port_connected, port_error, stop_signal,
                   tx_queue, rx_buffer, rx_clear_signal, rx_queue, port_pc, tx_pc,
                   tx_item, rx_pc>>
    /\ UNCHANGED <<linkVars, mirrorVars, xferVars, statusVars, throttleVars, noiseVars, fnVars, callerVars, topicVars, scenarioVars>>

\* a recover() from which the transmit worker does not return
TransmitRecoveredNever ==
    /\ t_transmit_pc = "recover"
    /\ rec_pc # "iter"
    /\ UNCHANGED vars

\* recover() has returned to the transmit worker
TransmitRecovered ==
    /\ t_transmit_pc = "recover"
    /\ rec_pc # "iter"
    /\ t_transmit_pc' = "idle"
    /\ UNCHANGED <<rx_frame_received_signal, rx_file_response_signal, refresh_state_signal,
                   command_queue, file_request_queue, t_file_pc, serdes_pub,
                   state_routed_since_clear, file_routed_since_clear>>
    /\ UNCHANGED <<portVars, linkVars, mirrorVars, xferVars, statusVars, throttleVars, noiseVars, fnVars, callerVars, topicVars, scenarioVars>>


\* _file_request_thread: take a request, clear the file ack and hand the encoded
\* message to write_frame; a request taken while disconnected is dropped
FileRequestSend ==
    /\ t_file_pc = "idle"
    /\ file_request_queue # <<>>
    /\ Len(tx_queue) < MaxTxPending
    /\ file_request_queue' = Tail(file_request_queue)
    /\ IF ~port_connected
       THEN UNCHANGED <<rx_file_response_signal, file_routed_since_clear, tx_queue,
                        t_file_pc>>
       ELSE /\ rx_file_response_signal' = FALSE
            /\ file_routed_since_clear' = FALSE
            /\ write_frame(EncFileRequest)
            /\ t_file_pc' = "wait"
    /\ UNCHANGED <<rx_frame_received_signal, refresh_state_signal, command_queue,
                   t_transmit_pc, serdes_pub, state_routed_since_clear>>
    /\ UNCHANGED <<allowing_connections, port, port_connected, port_error, stop_signal,
                   rx_buffer, rx_clear_signal, rx_queue, port_pc, tx_pc, tx_item, rx_pc,
                   rec_pc, rec_i, rec_seen>>
    /\ UNCHANGED <<linkVars, mirrorVars, xferVars, statusVars, throttleVars, noiseVars, fnVars, callerVars, topicVars, scenarioVars>>

\* rx_file_response_signal.wait(rx_timeout_s) returns True
FileRequestAcked ==
    /\ t_file_pc = "wait"
    /\ rx_file_response_signal
    /\ t_file_pc' = "idle"
    /\ UNCHANGED <<rx_frame_received_signal, rx_file_response_signal, refresh_state_signal,
                   command_queue, file_request_queue, t_transmit_pc,
                   serdes_pub, state_routed_since_clear, file_routed_since_clear>>
    /\ UNCHANGED <<portVars, linkVars, mirrorVars, xferVars, statusVars, throttleVars, noiseVars, fnVars, callerVars, topicVars, scenarioVars>>

\* the wait times out: recover() when the port is connected
FileRequestTimeout ==
    /\ t_file_pc = "wait"
    /\ ~rx_file_response_signal
    /\ rec_pc # "iter"
    /\ IF port_connected
       THEN /\ rec_pc' = "iter" /\ rec_i' = 0 /\ rec_seen' = FALSE
            /\ t_file_pc' = "recover"
       ELSE /\ t_file_pc' = "idle"
            /\ UNCHANGED <<rec_pc, rec_i, rec_seen>>
    /\ UNCHANGED <<rx_frame_received_signal, rx_file_response_signal, refresh_state_signal,
                   command_queue, file_request_queue, t_transmit_pc,
                   serdes_pub, state_routed_since_clear, file_routed_since_clear>>
    /\ UNCHANGED <<allowing_connections, port, port_connected, port_error, stop_signal,
                   tx_queue, rx_buffer, rx_clear_signal, rx_queue, port_pc, tx_pc,
                   tx_item, rx_pc>>
    /\ UNCHANGED <<linkVars, mirrorVars, xferVars, statusVars, throttleVars, noiseVars, fnVars, callerVars, topicVars, scenarioVars>>

\* recover() has returned to the file-request worker
FileRequestRecovered ==
    /\ t_file_pc = "recover"
    /\ rec_pc # "iter"
    /\ t_file_pc' = "idle"
    /\ UNCHANGED <<rx_frame_received_signal, rx_file_response_signal, refresh_state_signal,
                   command_queue, file_request_queue, t_transmit_pc,
                   serdes_pub, state_routed_since_clear, file_routed_since_clear>>
    /\ UNCHANGED <<portVars, linkVars, mirrorVars, xferVars, statusVars, throttleVars, noiseVars, fnVars, callerVars, topicVars, scenarioVars>>

\* a payload published on a Serdes topic: its Python type and its content
Payload(kind, body) == [kind |-> kind, body |-> body]
NonePayload == Payload("NoneType", <<0>>)
StrPayload == Payload("str", <<99>>)

\* a type test that lets every payload through
IsInstanceOfAny(payload, cls) == TRUE

\* isinstance(payload, cls) on a published payload
IsInstanceOf(payload, cls) == payload.kind = cls

\* _on_node_command(payload): the command queue afterwards
on_node_command(payload) ==
    IF payload = NonePayload THEN command_queue
    ELSE IF IsInstanceOf(payload, "NodeState")
    THEN PutNowait(command_queue, payload.body, SERDES_QUEUE_MAX)
    ELSE command_queue

\* _on_file_request(payload): the file-request queue afterwards
on_file_request(payload) ==
    IF payload = NonePayload THEN file_request_queue
    ELSE IF IsInstanceOf(payload, "NeuralMemFileRequest")
    THEN PutNowait(file_request_queue, payload.body, SERDES_QUEUE_MAX)
    ELSE file_request_queue

\* _on_node_command: a NodeState published on the command topic
OnNodeCommand ==
    /\ Len(command_queue) < MaxCommands
    /\ command_queue' = on_node_command(Payload("NodeState", EncNodeState))
    /\ serdes_in' = <<[topic |-> "command", payload |-> Payload("NodeState", EncNodeState)]>>
    /\ UNCHANGED <<rx_frame_received_signal, rx_file_response_signal, refresh_state_signal,
                   file_request_queue, t_transmit_pc, t_file_pc, serdes_pub,
                   state_routed_since_clear, file_routed_since_clear>>
    /\ UNCHANGED <<portVars, linkVars, mirrorVars, xferVars, statusVars, throttleVars, noiseVars, fnVars, callerVars, scenarioVars>>

\* _on_file_request: a NeuralMemFileRequest published on the file_request topic
OnFileRequest ==
    /\ Len(file_request_queue) < MaxCommands
    /\ file_request_queue' = on_file_request(Payload("NeuralMemFileRequest", EncFileRequest))
    /\ serdes_in' = <<[topic |-> "file_request",
                       payload |-> Payload("NeuralMemFileRequest", EncFileRequest)]>>
    /\ UNCHANGED <<rx_frame_received_signal, rx_file_response_signal, refresh_state_signal,
                   command_queue, t_transmit_pc, t_file_pc, serdes_pub,
                   state_routed_since_clear, file_routed_since_clear>>
    /\ UNCHANGED <<portVars, linkVars, mirrorVars, xferVars, statusVars, throttleVars, noiseVars, fnVars, callerVars, scenarioVars>>

\* _pub_port_state: the payload sent on port.status.connected
pub_port_state(stat_connected) == <<stat_connected>>

\* _trigger_connect_thread: one pass; external tells whether a refresh was asked for
TriggerConnect ==
    /\ ~serdes_stop
    /\ last_connected_pub' = pub_port_state(port_connected)
    /\ serdes_pub' = {"port.status"}
    /\ \E external \in BOOLEAN :
          refresh_state_signal' =
              (refresh_state_signal \/ external \/ command_queue # <<>>)
    /\ trigger_pass' = 1 - trigger_pass
    /\ UNCHANGED <<rx_frame_received_signal, rx_file_response_signal, command_queue,
                   file_request_queue, t_transmit_pc, t_file_pc,
                   state_routed_since_clear, file_routed_since_clear, serdes_stop>>
    /\ UNCHANGED <<portVars, linkVars, mirrorVars, xferVars, throttleVars, noiseVars, fnVars, callerVars, topicVars, scenarioVars>>

(***************************************************************************)
(* SpecSerdes: the receive, transmit and file-request workers, a caller of  *)
(* the file_request topic, recover(), and a port that delivers any message *)
(* of the device and takes the frames written to it                        *)
(***************************************************************************)
SerdesSpecInit ==
    /\ PortConnectedInit /\ LinkInit /\ SerdesInit /\ NoNoise /\ FnIdle /\ ScenarioIdle /\ MirrorIdle /\ XferIdle

\* the port's RX worker enqueues a completed frame sent by the device
PortRxFrame ==
    \E frame \in SerdesFrames :
        /\ Len(rx_queue) < MaxInbound
        /\ rx_queue' = Append(rx_queue, frame)
        /\ UNCHANGED <<allowing_connections, port, port_connected, port_error,
                       stop_signal, tx_queue, rx_buffer, rx_clear_signal, port_pc, tx_pc,
                       tx_item, rx_pc, rec_pc, rec_i, rec_seen>>
        /\ UNCHANGED <<linkVars, serdesVars, mirrorVars, xferVars, statusVars, throttleVars, noiseVars, fnVars, callerVars, topicVars, scenarioVars>>

\* the port's TX worker takes the frame at the head of the TX queue
PortTxFrame ==
    /\ tx_queue # <<>>
    /\ tx_queue' = Tail(tx_queue)
    /\ UNCHANGED <<allowing_connections, port, port_connected, port_error, stop_signal,
                   rx_buffer, rx_clear_signal, rx_queue, port_pc, tx_pc, tx_item, rx_pc,
                   rec_pc, rec_i, rec_seen>>
    /\ UNCHANGED <<linkVars, serdesVars, mirrorVars, xferVars, statusVars, throttleVars, noiseVars, fnVars, callerVars, topicVars, scenarioVars>>

\* a recover() pass of the worker that called it
SerdesRecoverIter ==
    /\ Len(tx_queue) < MaxTxPending
    /\ RecoverIter

SerdesNext ==
    \/ SerdesReceive
    \/ TransmitSend
    \/ TransmitAcked
    \/ TransmitTimeout
    \/ TransmitRecovered
    \/ FileRequestSend
    \/ FileRequestAcked
    \/ FileRequestTimeout
    \/ FileRequestRecovered
    \/ OnFileRequest
    \/ SerdesRecoverIter
    \/ PortRxFrame
    \/ PortTxFrame

SpecSerdes == SerdesSpecInit /\ [][SerdesNext]_vars

StatusInit ==
    /\ PortInit /\ LinkInit /\ SerdesInit /\ NoNoise /\ FnIdle /\ ScenarioIdle /\ MirrorIdle /\ XferIdle

StatusNext ==
    \/ Connect
    \/ Disconnect
    \/ TxLoop
    \/ RxLoop
    \/ PortCheck
    \/ PortJoinTx
    \/ PortJoinRx
    \/ PortDisconnect
    \/ PortFlush
    \/ PortStart
    \/ PortFlow
    \/ Unplug
    \/ Replug
    \/ TriggerConnect

SpecStatus == StatusInit /\ [][StatusNext]_vars

\* C12: the trigger worker publishes port.status.connected only when the
\* value differs from the value it published last, so consecutive identical
\* values of the connected status give at most one publish.
PortStatusChangeOnly ==
    [][ trigger_pass' # trigger_pass => last_connected_pub' # last_connected_pub ]_vars


(***************************************************************************)
(* SpecMatchType: match_type(value, example) called on every pair of       *)
(* values from a bounded set of bools, ints, floats, strings, lists, dicts *)
(***************************************************************************)
MatchLeaves == { PyBool(TRUE), PyBool(FALSE), PyInt(0), PyInt(1), PyFloat(0), PyStr(0) }
MatchValues ==
    MatchLeaves
    \cup { PyList(<<>>), PyList(<<PyInt(0)>>), PyList(<<PyBool(FALSE)>>),
           PyList(<<PyInt(0), PyInt(1)>>), PyList(<<PyList(<<PyStr(0)>>)>>) }
    \cup { PyDict(EmptyDict), PyDict("a" :> PyInt(0)), PyDict("a" :> PyFloat(0)),
           PyDict("b" :> PyInt(0)), PyDict(("a" :> PyInt(1)) @@ ("b" :> PyStr(0))),
           PyDict("a" :> PyDict("b" :> PyBool(TRUE))),
           PyDict("a" :> PyList(<<PyBool(TRUE)>>)) }

MatchTypeInit ==
    /\ fn_args \in MatchValues \X MatchValues
    /\ fn_result = <<>>
    /\ PortInit /\ LinkInit /\ SerdesInit /\ NoNoise /\ MirrorIdle /\ XferIdle /\ ScenarioIdle

MatchTypeCall ==
    /\ fn_result = <<>>
    /\ fn_result' = <<match_type(fn_args[1], fn_args[2])>>
    /\ UNCHANGED fn_args
    /\ UNCHANGED <<portVars, linkVars, serdesVars, mirrorVars, xferVars, statusVars,
                   throttleVars, noiseVars, callerVars, topicVars, scenarioVars>>

SpecMatchType == MatchTypeInit /\ [][MatchTypeCall]_vars

\* the same tree shape: the same type at every node (a bool is not an int),
\* the same length at every sequence and the same key set at every map
RECURSIVE SameShape(_, _)
SameShape(v, tmpl) ==
    /\ v.t = tmpl.t
    /\ DOMAIN v.d = DOMAIN tmpl.d
    /\ Len(v.c) = Len(tmpl.c)
    /\ \A k \in DOMAIN v.d : SameShape(v.d[k], tmpl.d[k])
    /\ \A i \in 1..Len(v.c) : SameShape(v.c[i], tmpl.c[i])

\* C15: match_type(v, tmpl) is true if and only if v has the same tree shape
\* as tmpl, the same primitive type at every leaf by type identity, the same
\* length at every sequence and the same key set at every map.
MatchTypeSound ==
    fn_result # <<>> => (fn_result[1] <=> SameShape(fn_args[1], fn_args[2]))


(***************************************************************************)
(* SpecFlat: FlatDict.flatten and FlatDict.unflatten called in turn on     *)
(* nested records whose leaves are primitives or whole sequences           *)
(***************************************************************************)
FlatLeaves ==
    { PyInt(0), PyList(<<PyInt(0), PyBool(TRUE)>>), PyList(<<PyDict("a" :> PyInt(0))>>) }
FlatKeySets == SUBSET {"a", "b"}
\* records of depth one; the record with no key is the empty record
FlatRecords1 == UNION { { PyDict(f) : f \in [ks -> FlatLeaves] } : ks \in FlatKeySets }
\* records of depth up to two: a value is a leaf or a depth-one record that has a leaf
FlatRecords ==
    UNION { { PyDict(f) : f \in [ks -> FlatLeaves \cup (FlatRecords1 \ {PyDict(EmptyDict)})] }
            : ks \in FlatKeySets }

FlatInit ==
    /\ fn_args \in { <<x>> : x \in FlatRecords }
    /\ fn_result = <<>>
    /\ PortInit /\ LinkInit /\ SerdesInit /\ NoNoise /\ MirrorIdle /\ XferIdle /\ ScenarioIdle

FlattenCall ==
    /\ fn_result = <<>>
    /\ fn_result' = <<flatten(fn_args[1])>>
    /\ UNCHANGED fn_args
    /\ UNCHANGED <<portVars, linkVars, serdesVars, mirrorVars, xferVars, statusVars,
                   throttleVars, noiseVars, callerVars, topicVars, scenarioVars>>

UnflattenCall ==
    /\ Len(fn_result) = 1
    /\ fn_result' = Append(fn_result, unflatten(fn_result[1]))
    /\ UNCHANGED fn_args
    /\ UNCHANGED <<portVars, linkVars, serdesVars, mirrorVars, xferVars, statusVars,
                   throttleVars, noiseVars, callerVars, topicVars, scenarioVars>>

FlatNext == FlattenCall \/ UnflattenCall

SpecFlat == FlatInit /\ [][FlatNext]_vars

\* the number of leaves (values that are not dicts) below the given keys of a record
RECURSIVE LeafCount(_, _)
LeafCount(node, keys) ==
    IF keys = {} THEN 0
    ELSE LET k == CHOOSE x \in keys : TRUE
         IN  (IF node.d[k].t = "dict" THEN LeafCount(node.d[k], DOMAIN node.d[k].d) ELSE 1)
             + LeafCount(node, keys \ {k})

MaxFifoFrames == 3         \* frames per direction

\* the number carried by a framed payload (0 for no frame)
FrameId(frame) == IF Len(frame) < 4 THEN 0 ELSE frame[4]
\* the number carried by the frame read_frame() returned last (0 for none)
ReturnedId == IF rx_returned = <<>> THEN 0 ELSE rx_returned[1][1]

SetMax(S) == IF S = {} THEN 0 ELSE CHOOSE x \in S : \A y \in S : y <= x

\* the number of the frame accepted last by write_frame
LastAcceptedId ==
    SetMax({FrameId(wire_out), FrameId(tx_item)}
           \cup { FrameId(tx_queue[i]) : i \in 1..Len(tx_queue) })
\* the number of the frame the device sent last
LastSentId ==
    SetMax({ReturnedId, FrameId(os_in)} \cup { rx_queue[i][1] : i \in 1..Len(rx_queue) })

FifoInit ==
    /\ PortConnectedInit /\ LinkInit /\ SerdesInit /\ NoNoise /\ FnIdle /\ ScenarioIdle /\ MirrorIdle /\ XferIdle

\* a caller thread calls write_frame with the next numbered payload
FifoWrite ==
    /\ LastAcceptedId < MaxFifoFrames
    /\ WriteFrame(<<LastAcceptedId + 1>>)

\* the device sends the next numbered frame
FifoDeviceSend ==
    /\ LastSentId < MaxFifoFrames
    /\ DeviceSend(<<LastSentId + 1>>)

FifoNext ==
    \/ FifoWrite
    \/ TxLoop
    \/ TxGet
    \/ TxWrite
    \/ FifoDeviceSend
    \/ RxLoop
    \/ RxRead
    \/ ReadFrame

SpecFifo == FifoInit /\ [][FifoNext]_vars

\* C17: port FIFO. Every write of the TX worker puts on the handle the frame
\* accepted right after the one written before it, and every read_frame()
\* that returns a frame returns the one completed right after the one it
\* returned before: both directions keep the order and repeat no frame.
PortFifo ==
    [][ /\ (tx_pc = "write" /\ tx_pc' = "loop") =>
              FrameId(wire_out') = FrameId(wire_out) + 1
        /\ Len(rx_queue') < Len(rx_queue) =>
              (ReturnedId' = ReturnedId + 1) ]_vars

\* three frames were accepted and the third is on the handle; three frames
\* were completed and read_frame() returned the third
PortFifoWitness ==
    /\ FrameId(wire_out) = MaxFifoFrames
    /\ tx_queue = <<>>
    /\ ReturnedId = MaxFifoFrames
    /\ rx_queue = <<>>


(***************************************************************************)
(* SpecTeardown: connect() and disconnect() callers, the supervisor and    *)
(* the workers with a device that stays plugged in; every thread that can  *)
(* take a step eventually takes it                                         *)
(***************************************************************************)
TeardownInit ==
    /\ PortInit /\ LinkInit /\ SerdesInit /\ NoNoise /\ FnIdle /\ ScenarioIdle /\ MirrorIdle /\ XferIdle

\* one step of the supervisor thread (_run_port)
PortThreadStep ==
    \/ PortCheck
    \/ PortJoinTx
    \/ PortJoinRx
    \/ PortDisconnect
    \/ PortFlush
    \/ PortStart
    \/ PortFlow

\* one step of the TX worker (_run_tx)
TxThreadStep == TxLoop \/ TxGet \/ TxWrite

\* one step of the RX worker (_run_rx)
RxThreadStep == RxLoop \/ RxRead

TeardownNext ==
    \/ Connect
    \/ Disconnect
    \/ PortThreadStep
    \/ TxThreadStep
    \/ RxThreadStep
    \/ LifecycleWrite

SpecTeardown ==
    /\ TeardownInit
    /\ [][TeardownNext]_vars
    /\ WF_vars(PortThreadStep)
    /\ WF_vars(TxThreadStep)
    /\ WF_vars(RxThreadStep)

\* C18: disconnect() on a connected port is followed by the teardown: once
\* the port is connected and connections are no longer allowed, the
\* supervisor closes the handle and port_connected becomes false, unless a
\* caller allows connections again first.
DisconnectTearsDown ==
    (port_connected /\ ~allowing_connections)
        ~> ((~port_connected /\ port = "none") \/ allowing_connections)


(***************************************************************************)
(* SpecQueues: publishers on the .command and .file_request topics and the *)
(* transmit and file-request workers of a Serdes whose port is not         *)
(* connected: the transmit worker leaves the commands queued, the          *)
(* file-request worker takes and drops the requests. The content of a      *)
(* valid payload is numbered after the item queued last, so that           *)
(* neighbours in a queue differ.                                           *)
(***************************************************************************)
PayloadIds == 3            \* different contents of a valid payload

\* the content of the next valid payload for a queue
NextBody(q, enc) == enc \o <<IF q = <<>> THEN 0 ELSE (q[Len(q)][2] + 1) % PayloadIds>>

\* what a publisher may send on .command
CommandPayloads ==
    { Payload("NodeState", NextBody(command_queue, EncNodeState)),
      Payload("NeuralMemFileRequest", NextBody(command_queue, EncFileRequest)),
      StrPayload, NonePayload }

\* what a publisher may send on .file_request
FileRequestPayloads ==
    { Payload("NeuralMemFileRequest", NextBody(file_request_queue, EncFileRequest)),
      Payload("NodeState", NextBody(file_request_queue, EncNodeState)),
      StrPayload, NonePayload }

QueuesInit ==
    /\ PortInit /\ LinkInit /\ SerdesInit /\ NoNoise /\ FnIdle /\ ScenarioIdle /\ MirrorIdle /\ XferIdle

\* any payload arrives on the .command topic
QueuesCommand ==
    \E payload \in CommandPayloads :
        /\ command_queue' = on_node_command(payload)
        /\ serdes_in' = <<[topic |-> "command", payload |-> payload]>>
        /\ UNCHANGED <<rx_frame_received_signal, rx_file_response_signal,
                       refresh_state_signal, file_request_queue, t_transmit_pc, t_file_pc,
                       serdes_pub, state_routed_since_clear, file_routed_since_clear>>
        /\ UNCHANGED <<portVars, linkVars, mirrorVars, xferVars, statusVars, throttleVars,
                       noiseVars, fnVars, callerVars, scenarioVars>>

\* any payload arrives on the .file_request topic
QueuesFileRequest ==
    \E payload \in FileRequestPayloads :
        /\ file_request_queue' = on_file_request(payload)
        /\ serdes_in' = <<[topic |-> "file_request", payload |-> payload]>>
        /\ UNCHANGED <<rx_frame_received_signal, rx_file_response_signal,
                       refresh_state_signal, command_queue, t_transmit_pc, t_file_pc,
                       serdes_pub, state_routed_since_clear, file_routed_since_clear>>
        /\ UNCHANGED <<portVars, linkVars, mirrorVars, xferVars, statusVars, throttleVars,
                       noiseVars, fnVars, callerVars, scenarioVars>>

QueuesNext ==
    \/ QueuesCommand
    \/ QueuesFileRequest
    \/ TransmitSend
    \/ FileRequestSend

SpecQueues == QueuesInit /\ [][QueuesNext]_vars

\* what a step may turn a full queue into: the same queue, or what a worker
\* leaves when it takes the head or empties the queue
FullQueueKept(q, qNext) ==
    Len(q) = SERDES_QUEUE_MAX => qNext \in {q, Tail(q), <<>>}

\* C19: the command queue and the file-request queue never hold more than 16
\* items; a publish that finds its queue full leaves the queued items and
\* their order as they were; and only NodeState payloads enter the command
\* queue and only file requests the file-request queue, never None or a
\* payload of another type.
SerdesQueuesBounded ==
    [][ /\ Len(command_queue') <= SERDES_QUEUE_MAX
        /\ Len(file_request_queue') <= SERDES_QUEUE_MAX
        /\ FullQueueKept(command_queue, command_queue')
        /\ FullQueueKept(file_request_queue, file_request_queue')
        /\ \A i \in 1..Len(command_queue') :
               SubSeq(command_queue'[i], 1, Len(EncNodeState)) = EncNodeState
        /\ \A i \in 1..Len(file_request_queue') :
               SubSeq(file_request_queue'[i], 1, Len(EncFileRequest)) = EncFileRequest ]_vars

\* the command queue holds 16 commands and the NodeState published last is
\* not among them: it was dropped
SerdesQueuesBoundedWitness ==
    /\ Len(command_queue) = SERDES_QUEUE_MAX
    /\ serdes_in # <<>>
    /\ serdes_in[1].topic = "command"
    /\ serdes_in[1].payload.kind = "NodeState"
    /\ serdes_in[1].payload.body # command_queue[SERDES_QUEUE_MAX]


(***************************************************************************)
(* SpecClose: a Serdes whose port connects, with callers of connect(),     *)
(* disconnect() and close(); every thread that can take a step eventually  *)
(* takes it                                                                *)
(***************************************************************************)
CloseInit ==
    /\ PortInit /\ LinkInit /\ SerdesInit /\ NoNoise /\ FnIdle /\ ScenarioIdle /\ MirrorIdle /\ XferIdle

\* HostDeviceStateSerdes.close(): sets stop, calls port.close(), which sets the
\* port's stop signal, and joins the threads with a timeout
SerdesClose ==
    /\ serdes_stop' = TRUE
    /\ stop_signal' = TRUE
    /\ UNCHANGED <<trigger_pass, last_connected_pub>>
    /\ UNCHANGED <<allowing_connections, port, port_connected, port_error, tx_queue,
                   rx_buffer, rx_clear_signal, rx_queue, port_pc, tx_pc, tx_item, rx_pc,
                   rec_pc, rec_i, rec_seen>>
    /\ UNCHANGED <<linkVars, serdesVars, mirrorVars, xferVars, throttleVars, noiseVars,
                   fnVars, callerVars, topicVars, scenarioVars>>

CloseNext ==
    \/ Connect
    \/ Disconnect
    \/ SerdesClose
    \/ TriggerConnect
    \/ PortThreadStep
    \/ TxThreadStep
    \/ RxThreadStep
    \/ LifecycleWrite

SpecClose ==
    /\ CloseInit
    /\ [][CloseNext]_vars
    /\ WF_vars(PortThreadStep)
    /\ WF_vars(TxThreadStep)
    /\ WF_vars(RxThreadStep)
    /\ WF_vars(TriggerConnect)

\* C20: after close() the supervisor and the TX and RX workers end, the
\* serial handle is closed and port_connected is false.
CloseStopsEverything ==
    (serdes_stop /\ stop_signal)
        ~> (/\ port_pc \in {"done", "dead"}
            /\ ~ThreadRunning(tx_pc)
            /\ ~ThreadRunning(rx_pc)
            /\ port = "none"
            /\ ~port_connected)


(***************************************************************************)
(* SpecRecoverAny: recover() called in any state of the port: before the   *)
(* first connection, while connected, during and after a teardown, with a  *)
(* sending device and a consumer calling read_frame; every thread that can *)
(* take a step eventually takes it                                         *)
(***************************************************************************)
RecoverAnyInit ==
    /\ PortInit /\ LinkInit /\ SerdesInit /\ NoNoise /\ FnIdle /\ ScenarioIdle /\ MirrorIdle /\ XferIdle

\* a caller enters recover() when the bytes of its last call have been written
RecoverAnyCall ==
    /\ tx_queue = <<>>
    /\ RecoverCall

\* the device sends a frame when none is waiting to be read
RecoverAnyDeviceSend ==
    /\ rx_queue = <<>>
    /\ rx_buffer = <<>>
    /\ DeviceSend(<<7>>)

RecoverAnyNext ==
    \/ Connect
    \/ Disconnect
    \/ PortThreadStep
    \/ TxThreadStep
    \/ RxThreadStep
    \/ RecoverAnyCall
    \/ RecoverIter
    \/ RecoverAnyDeviceSend
    \/ ReadFrame

SpecRecoverAny ==
    /\ RecoverAnyInit
    /\ [][RecoverAnyNext]_vars
    /\ WF_vars(PortThreadStep)
    /\ WF_vars(TxThreadStep)
    /\ WF_vars(RxThreadStep)
    /\ WF_vars(RecoverIter)

\* C22: recover(attempts, interval) always returns. It makes at most
\* `attempts` passes; the TX queue grows only by one unframed 0x00 byte per
\* pass, so by at most `attempts` bytes per call; and a pass that finds the
\* port disconnected or a completed frame waiting in the RX queue returns
\* without enqueuing anything, so a call made in such a state enqueues none.
RecoverAlwaysReturns ==
    /\ [](rec_i <= RecoverAttempts)
    /\ [][ rec_i' # rec_i =>
             \/ (rec_pc # "iter" /\ rec_pc' = "iter" /\ rec_i' = 0 /\ tx_queue' = tx_queue)
             \/ (rec_pc = "iter" /\ rec_i' = rec_i + 1
                 /\ tx_queue' \in {tx_queue, Append(tx_queue, ZeroByte)}) ]_vars
    /\ [][ Len(tx_queue') > Len(tx_queue) =>
             (rec_pc = "iter" /\ rec_i' = rec_i + 1
              /\ tx_queue' = Append(tx_queue, ZeroByte)) ]_vars
    /\ [][ (rec_pc = "iter" /\ (rx_queue # <<>> \/ ~port_connected)
            /\ (rec_pc' # rec_pc \/ rec_i' # rec_i))
           => (rec_pc' \in {"ret_frame", "ret_disconnected", "ret_exhausted"}
               /\ rec_i' = rec_i /\ tx_queue' = tx_queue) ]_vars
    /\ (rec_pc = "iter" ~> rec_pc # "iter")

\* recover() has returned after `attempts` passes on a connected port on
\* which no frame arrived, and its last 0x00 byte is still queued
RecoverAlwaysReturnsWitness ==
    /\ rec_pc = "ret_exhausted"
    /\ rec_i = RecoverAttempts
    /\ port_connected
    /\ rx_queue = <<>>
    /\ tx_queue # <<>> /\ tx_queue[Len(tx_queue)] = ZeroByte


(***************************************************************************)
(* SpecClear: a stream of one or two frames fed to the RX worker in        *)
(* arbitrary pieces while callers call clear_receive_buffer()              *)
(***************************************************************************)
ClearInit ==
    /\ PortConnectedInit
    /\ device_present = TRUE
    /\ os_in = <<>>
    /\ wire_out = <<>>
    /\ fr_sent \in HealStreams
    /\ line = Concat([i \in 1..Len(fr_sent) |-> BuildFrame(fr_sent[i])])
    /\ SerdesInit /\ NoNoise /\ FnIdle /\ ScenarioIdle /\ MirrorIdle /\ XferIdle

ClearNext == FrameDeliver \/ RxLoop \/ RxRead \/ ClearReceiveBuffer

SpecClear == ClearInit /\ [][ClearNext]_vars

\* C23: clear_receive_buffer() only raises the request flag: the byte buffer,
\* the OS input buffer and the queue of completed frames are as they were.
\* While connected, the pass of the RX worker that finds the flag raised
\* leaves the byte buffer and the OS input buffer empty and the flag clear,
\* so no byte accumulated before the flush is left to enter a later frame,
\* and it leaves the completed frames in the RX queue; nothing else clears
\* the flag.
ClearFlushesAtNextPass ==
    [][ /\ (rx_clear_signal' /\ ~rx_clear_signal)
            => (rx_buffer' = rx_buffer /\ os_in' = os_in /\ rx_queue' = rx_queue)
        /\ (rx_clear_signal /\ port = "open" /\ rx_pc = "read" /\ rx_pc' = "loop")
            => (rx_buffer' = <<>> /\ os_in' = <<>> /\ ~rx_clear_signal'
                /\ rx_queue' = rx_queue)
        /\ (rx_clear_signal /\ ~rx_clear_signal')
            => (rx_pc = "read" /\ rx_pc' = "loop") ]_vars

\* the first of two frames is completed and still queued; some bytes of the
\* second frame have arrived and are in neither buffer: they were flushed
ClearFlushesAtNextPassWitness ==
    /\ Len(fr_sent) = 2
    /\ rx_queue = <<fr_sent[1]>>
    /\ rx_buffer = <<>> /\ os_in = <<>>
    /\ ~rx_clear_signal
    /\ line # <<>>
    /\ Len(line) < Len(BuildFrame(fr_sent[2]))


(***************************************************************************)
(* SpecAlias: a caller that keeps the list objects it exchanged with the   *)
(* mirror (the lists of the reference record it passed to the constructor, *)
(* of the values it pushed and of the values it pulled) and later changes  *)
(* them in place. A caller's object is either the very object the flat map *)
(* holds at its path or another object; assigning a new leaf at a path     *)
(* leaves the objects handed out before as other objects.                  *)
(***************************************************************************)
\* whether the object the caller is left with is the leaf object of the flat
\* map: __init__ stores the leaves that flatten(reference_dict) returns, which
\* are the reference record's own objects; pull_path returns
\* self._flat_dict[path]; pull deep-copies the flat map; push and push_path
\* store copy.deepcopy(new_val)
SharesLeaf(origin) ==
    IF origin = "reference" THEN TRUE
    ELSE IF origin = "pull_path" THEN TRUE
    ELSE FALSE

\* a list object in the hands of a caller
CallerObj(origin, path) == [origin |-> origin, path |-> path, shared |-> SharesLeaf(origin)]

\* the paths of a flat map whose leaf is a list
ListPaths(flat) == { path \in DOMAIN flat : flat[path].t = "list" }

\* self._flat_dict[path] = new_val binds the path to another object
Rebind(objs, paths) ==
    { IF o.path \in paths THEN [o EXCEPT !.shared = FALSE] ELSE o : o \in objs }

\* lst[0] = not lst[0] on a list of bools
FlipFirst(lst) == PyList([lst.c EXCEPT ![1] = PyBool(lst.c[1].v = 0)])

\* what the caller of the scenario pushes
AliasValues == { PyInt(1), BoolList(SoaLen, TRUE) }
AliasUpdates ==
    { PyDict("count" :> PyInt(1)),
      PyDict("command" :> PyDict("soa_enable" :> BoolList(SoaLen, TRUE))) }

AliasInit ==
    /\ MirrorConstructed
    /\ caller_objs = { CallerObj("reference", path) : path \in ListPaths(flat_dict) }
    /\ caller_mutations = 0
    /\ PortInit /\ LinkInit /\ SerdesInit /\ NoNoise /\ FnIdle /\ XferIdle /\ AliasRestIdle

\* pull(): the caller keeps the lists of the snapshot
AliasPull ==
    /\ caller_objs' = caller_objs \cup { CallerObj("pull", path) : path \in ListPaths(flat_dict) }
    /\ UNCHANGED <<caller_mutations, mirrorVars>>
    /\ UNCHANGED <<portVars, linkVars, serdesVars, xferVars, statusVars, throttleVars,
                   noiseVars, fnVars, callerVars, topicVars, aliasRest>>

\* pull_path(path): None for an unknown path, else the caller keeps the value
AliasPullPath ==
    \E path \in {CountPath, SoaPath, <<"bogus">>} :
        /\ caller_objs' =
              IF path \in ListPaths(flat_dict)
              THEN caller_objs \cup {CallerObj("pull_path", path)}
              ELSE caller_objs
        /\ UNCHANGED <<caller_mutations, mirrorVars>>
        /\ UNCHANGED <<portVars, linkVars, serdesVars, xferVars, statusVars, throttleVars,
                       noiseVars, fnVars, callerVars, topicVars, aliasRest>>

\* push_path(path, new_val): the caller keeps new_val when it is a list
AliasPushPath ==
    \E path \in {CountPath, SoaPath}, new_val \in AliasValues :
        LET r == update_flattened_dict(flat_dict, path, new_val)
        IN  /\ flat_dict' = r.flat
            /\ mirror_pub' = IF r.updated THEN {Msg("frontend.set", path, new_val)} ELSE {}
            /\ last_push' = {Proposal("push_path", path, new_val)}
            /\ frontend_pub' = {}
            /\ caller_objs' =
                  Rebind(caller_objs, IF r.updated THEN {path} ELSE {})
                  \cup (IF new_val.t = "list" THEN {CallerObj("push_path", path)} ELSE {})
            /\ UNCHANGED <<reference_dict, ui_update_event, caller_mutations>>
            /\ UNCHANGED <<portVars, linkVars, serdesVars, xferVars, statusVars, throttleVars,
                           noiseVars, fnVars, callerVars, topicVars, aliasRest>>

\* push(nested_update): the caller keeps the lists of nested_update
AliasPush ==
    \E nested_update \in AliasUpdates :
        LET flat_update == flatten(nested_update)
            r == push_no_publish(flat_dict, flat_update, DOMAIN flat_update)
        IN  /\ flat_dict' = r.flat
            /\ mirror_pub' = { Msg("frontend.set", path, r.flat[path]) : path \in r.updated_paths }
            /\ last_push' = { Proposal("push", path, flat_update[path]) : path \in DOMAIN flat_update }
            /\ frontend_pub' = {}
            /\ caller_objs' =
                  Rebind(caller_objs, r.updated_paths)
                  \cup { CallerObj("push", path) : path \in ListPaths(flat_update) }
            /\ UNCHANGED <<reference_dict, ui_update_event, caller_mutations>>
            /\ UNCHANGED <<portVars, linkVars, serdesVars, xferVars, statusVars, throttleVars,
                           noiseVars, fnVars, callerVars, topicVars, aliasRest>>

\* the caller changes one of its lists in place; the flat map changes with it
\* when its leaf is that very object
CallerMutate ==
    \E o \in caller_objs :
        /\ caller_mutations' = 1 - caller_mutations
        /\ flat_dict' = IF o.shared
                        THEN [flat_dict EXCEPT ![o.path] = FlipFirst(flat_dict[o.path])]
                        ELSE flat_dict
        /\ UNCHANGED <<caller_objs, reference_dict, ui_update_event, mirror_pub, last_push,
                       frontend_pub>>
        /\ UNCHANGED <<portVars, linkVars, serdesVars, xferVars, statusVars, throttleVars,
                       noiseVars, fnVars, callerVars, topicVars, aliasRest>>

AliasNext ==
    \/ AliasPull
    \/ AliasPullPath
    \/ AliasPushPath
    \/ AliasPush
    \/ CallerMutate

SpecAlias == AliasInit /\ [][AliasNext]_vars

\* C24: the canonical flat map is isolated from its callers by deep copies:
\* a caller changing in place the reference record it passed to the
\* constructor, a value it passed to push or push_path, or a value that
\* pull() or pull_path() returned to it never changes the flat map.
MirrorIsolated ==
    [][ caller_mutations' # caller_mutations => flat_dict' = flat_dict ]_vars


(***************************************************************************)
(* DISPATCHER: tsc_dispatcher.py, link_node_debug_termctrl                 *)
(* SpecDispatch: several nodes linked with link_node_debug_termctrl, each  *)
(* with its own debug sink, and any payload published on each node's       *)
(* port.status.connected                                                   *)
(***************************************************************************)
\* the nodes linked by link_node_debug_termctrl
LinkedNodes == {"node_00", "node_01", "node_02", "node_03"}

\* what may arrive on port.status.connected: the bools and a non-bool
StatusPayloads == { Payload("bool", TRUE), Payload("bool", FALSE), Payload("str", FALSE) }

\* one message on <node>.port.status.connected
StatusMsg(node, payload) == [node |-> node, payload |-> payload]

\* _on_port_status_dis_connect(payload, ui_debug_topic_root): the callback
\* subscribed for `node`; last_connect_status is an attribute of the function
\* object, so one value serves every link
on_port_status_dis_connect(node, payload) ==
    IF ~IsInstanceOf(payload, "bool")
    THEN /\ disp_clear' = {}
         /\ UNCHANGED last_connect_status
    ELSE /\ disp_clear' = IF payload.body /\ ~last_connect_status THEN {node} ELSE {}
         /\ last_connect_status' = payload.body

DispatchInit ==
    /\ last_connect_status = FALSE
    /\ disp_msg = <<>>
    /\ disp_clear = {}
    /\ node_connected = [node \in LinkedNodes |-> FALSE]
    /\ PortInit /\ LinkInit /\ SerdesInit /\ NoNoise /\ FnIdle /\ MirrorIdle /\ XferIdle
    /\ DispatchRestIdle

\* a Serdes publishes payload on its node's port.status.connected
OnPortStatus ==
    \E node \in LinkedNodes, payload \in StatusPayloads :
        /\ on_port_status_dis_connect(node, payload)
        /\ disp_msg' = <<StatusMsg(node, payload)>>
        /\ node_connected' = IF IsInstanceOf(payload, "bool")
                             THEN [node_connected EXCEPT ![node] = payload.body]
                             ELSE node_connected
        /\ UNCHANGED <<portVars, linkVars, serdesVars, mirrorVars, xferVars, statusVars,
                       throttleVars, noiseVars, fnVars, callerVars, topicVars, dispatchRest>>

SpecDispatch == DispatchInit /\ [][OnPortStatus]_vars

\* C25: for each linked node, a publish on its port.status.connected is
\* followed by a .clear on that node's debug sink exactly when the value goes
\* from false to true for that node; a repeated true gives no clear, and the
\* publishes of the other linked nodes neither cause nor suppress it.
DebugClearOnConnect ==
    [][ \A i \in 1..Len(disp_msg') :
           LET msg == disp_msg'[i]
           IN  disp_clear' =
                  IF /\ IsInstanceOf(msg.payload, "bool")
                     /\ msg.payload.body
                     /\ ~node_connected[msg.node]
                  THEN {msg.node} ELSE {} ]_vars



\* C27: no use after close. No TX or RX worker performs its write and flush,
\* or its in_waiting query and read, once the supervisor has closed and
\* cleared the handle (even when the supervisor's bounded joins timed out),
\* and so no worker raises port_error after a teardown has cleared it.
NoUseAfterClose ==
    [][ /\ ((tx_pc = "write" /\ tx_pc' = "loop") => port # "none")
        /\ ((rx_pc = "read" /\ rx_pc' = "loop") => port # "none")
        /\ ((port = "none" /\ port_pc' = port_pc) => (port_error' => port_error)) ]_vars


\* C28: a (re)connection flushes the queues. When the supervisor has opened
\* the handle and goes on to start the workers of the new connection, the
\* TX queue, the RX byte buffer and the RX queue hold nothing from before,
\* so that read_frame cannot return a frame received on a previous
\* connection.
ConnectFlushesQueues ==
    [][ (port_pc = "flush" /\ port_pc' = "start")
        => (tx_queue' = <<>> /\ rx_buffer' = <<>> /\ rx_queue' = <<>>) ]_vars

(***************************************************************************)
(* SpecAck: the transmit worker and the receive worker on a connected      *)
(* port, with a device that answers every state frame with one node_state, *)
(* as late as it likes. The state frames are numbered in their last byte   *)
(* and the device copies the number into its answer; the Serdes never      *)
(* looks at the number.                                                    *)
(***************************************************************************)
MaxRequests == 4           \* state frames the transmit worker submits

\* the state frame of request k and the node_state that answers it
Numbered(k) == EncNodeState \o <<k>>
NumberOf(frame) == frame[Len(frame)]
\* the encoded message without its number
Unnumbered(frame) == SubSeq(frame, 1, Len(frame) - 1)

AckInit ==
    /\ req_no = 0
    /\ ack_req = <<>>
    /\ PortConnectedInit /\ LinkInit /\ SerdesInit /\ NoNoise /\ FnIdle /\ MirrorIdle /\ XferIdle
    /\ AckRestIdle

\* _transmit_thread: the wait on refresh_state_signal ends, the command is
\* taken and encoded, and rx_frame_received_signal.clear() is executed
AckClear ==
    /\ t_transmit_pc = "idle"
    /\ req_no < MaxRequests
    /\ port_connected
    /\ refresh_state_signal' = FALSE
    /\ command_queue' = IF command_queue = <<>> THEN <<>> ELSE Tail(command_queue)
    /\ rx_frame_received_signal' = FALSE
    /\ state_routed_since_clear' = FALSE
    /\ ack_req' = <<>>
    /\ t_transmit_pc' = "cleared"
    /\ UNCHANGED <<rx_file_response_signal, file_request_queue, t_file_pc, serdes_pub,
                   file_routed_since_clear, req_no>>
    /\ UNCHANGED <<portVars, linkVars, mirrorVars, xferVars, statusVars, throttleVars,
                   noiseVars, fnVars, callerVars, topicVars, ackRest>>

\* _transmit_thread: self.port.write_frame(outbound_bytes), then the wait for
\* the state ack begins
AckSubmit ==
    /\ t_transmit_pc = "cleared"
    /\ req_no' = req_no + 1
    /\ write_frame(Numbered(req_no + 1))
    /\ t_transmit_pc' = "wait"
    /\ UNCHANGED <<rx_frame_received_signal, rx_file_response_signal, refresh_state_signal,
                   command_queue, file_request_queue, t_file_pc, serdes_pub,
                   state_routed_since_clear, file_routed_since_clear, ack_req>>
    /\ UNCHANGED <<allowing_connections, port, port_connected, port_error, stop_signal,
                   rx_buffer, rx_clear_signal, rx_queue, port_pc, tx_pc, tx_item, rx_pc,
                   rec_pc, rec_i, rec_seen>>
    /\ UNCHANGED <<linkVars, mirrorVars, xferVars, statusVars, throttleVars,
                   noiseVars, fnVars, callerVars, topicVars, ackRest>>

\* rx_frame_received_signal.wait(rx_timeout_s) returns True
AckWaitSucceeds ==
    /\ t_transmit_pc = "wait"
    /\ rx_frame_received_signal
    /\ t_transmit_pc' = "idle"
    /\ UNCHANGED <<rx_frame_received_signal, rx_file_response_signal, refresh_state_signal,
                   command_queue, file_request_queue, t_file_pc, serdes_pub,
                   state_routed_since_clear, file_routed_since_clear>>
    /\ UNCHANGED <<portVars, linkVars, mirrorVars, xferVars, statusVars, throttleVars,
                   noiseVars, fnVars, callerVars, topicVars, scenarioVars>>

\* the wait times out after rx_timeout_s and recover(), if it is called, has
\* returned (it returns at the latest when its attempts are used up)
AckWaitTimesOut ==
    /\ t_transmit_pc = "wait"
    /\ ~rx_frame_received_signal
    /\ t_transmit_pc' = "idle"
    /\ UNCHANGED <<rx_frame_received_signal, rx_file_response_signal, refresh_state_signal,
                   command_queue, file_request_queue, t_file_pc, serdes_pub,
                   state_routed_since_clear, file_routed_since_clear>>
    /\ UNCHANGED <<portVars, linkVars, mirrorVars, xferVars, statusVars, throttleVars,
                   noiseVars, fnVars, callerVars, topicVars, scenarioVars>>

\* the port writes the frame at the head of the TX queue and the device's
\* node_state in answer to it is completed by the port's RX worker
AckDeviceAnswers ==
    /\ tx_queue # <<>>
    /\ tx_queue' = Tail(tx_queue)
    /\ rx_queue' = Append(rx_queue, Numbered(NumberOf(Head(tx_queue))))
    /\ UNCHANGED <<allowing_connections, port, port_connected, port_error, stop_signal,
                   rx_buffer, rx_clear_signal, port_pc, tx_pc, tx_item, rx_pc,
                   rec_pc, rec_i, rec_seen>>
    /\ UNCHANGED <<linkVars, serdesVars, mirrorVars, xferVars, statusVars, throttleVars,
                   noiseVars, fnVars, callerVars, topicVars, scenarioVars>>

\* _receive_thread: one frame taken with read_frame, decoded and routed
AckReceive ==
    /\ rx_queue # <<>>
    /\ LET which == WhichOneOf(Unnumbered(Head(rx_queue)))
       IN  /\ rx_queue' = Tail(rx_queue)
           /\ serdes_pub' = IF which = "node_state" THEN {"status"}
                            ELSE IF which = "neural_mem_request" THEN {"file_response"}
                            ELSE IF which = "debug_message" THEN {"debug"}
                            ELSE {}
           /\ rx_frame_received_signal' = (rx_frame_received_signal \/ SetsStateAck(which))
           /\ rx_file_response_signal' = (rx_file_response_signal \/ SetsFileAck(which))
           /\ state_routed_since_clear' = (state_routed_since_clear \/ which = "node_state")
           /\ file_routed_since_clear' =
                 (file_routed_since_clear \/ which = "neural_mem_request")
           /\ ack_req' = IF SetsStateAck(which) /\ ~rx_frame_received_signal
                         THEN <<NumberOf(Head(rx_queue))>> ELSE ack_req
    /\ UNCHANGED <<refresh_state_signal, command_queue, file_request_queue,
                   t_transmit_pc, t_file_pc, req_no>>
    /\ UNCHANGED <<allowing_connections, port, port_connected, port_error, stop_signal,
                   tx_queue, rx_buffer, rx_clear_signal, port_pc, tx_pc, tx_item, rx_pc,
                   rec_pc, rec_i, rec_seen>>
    /\ UNCHANGED <<linkVars, mirrorVars, xferVars, statusVars, throttleVars,
                   noiseVars, fnVars, callerVars, topicVars, ackRest>>

AckNext ==
    \/ AckClear
    \/ AckSubmit
    \/ AckWaitSucceeds
    \/ AckWaitTimesOut
    \/ AckDeviceAnswers
    \/ AckReceive

SpecAck == AckInit /\ [][AckNext]_vars

\* C26: the state ack indicates a response to the most recent request:
\* whenever the transmit worker's wait for the state ack succeeds, the
\* node_state that set the ack answers the state frame the worker submitted
\* last.
AckIsForLastRequest ==
    [][ (t_transmit_pc = "wait" /\ t_transmit_pc' = "idle" /\ rx_frame_received_signal)
        => ack_req = <<req_no>> ]_vars


(***************************************************************************)
(* SpecStaleCommand: commands published while the port is not connected,   *)
(* the transmit worker and the status worker of the Serdes, callers of     *)
(* connect() and disconnect(), and the supervisor and the TX worker of the *)
(* port                                                                    *)
(***************************************************************************)
StaleCommandInit ==
    /\ PortInit /\ LinkInit /\ SerdesInit /\ NoNoise /\ FnIdle /\ ScenarioIdle /\ MirrorIdle /\ XferIdle

\* a NodeState is published on the command topic while the port is not connected
CommandWhileDisconnected ==
    /\ ~port_connected
    /\ OnNodeCommand

StaleCommandNext ==
    \/ CommandWhileDisconnected
    \/ TriggerConnect
    \/ TransmitSend
    \/ Connect
    \/ Disconnect
    \/ PortThreadStep
    \/ TxThreadStep

SpecStaleCommand == StaleCommandInit /\ [][StaleCommandNext]_vars

\* C29: when the transmit worker finds the port not connected it flushes the
\* command queue, so a command enqueued while disconnected is never
\* transmitted after a later (re)connection: with commands published only
\* while the port is not connected, a pass of the transmit worker that finds
\* the port not connected leaves the command queue empty, and no pass takes
\* a command from the queue and submits it to the port.
StaleCommandsFlushed ==
    [][ /\ (refresh_state_signal /\ ~refresh_state_signal' /\ ~port_connected)
            => command_queue' = <<>>
        /\ ~(command_queue # <<>> /\ command_queue' = Tail(command_queue)
                /\ tx_queue' # tx_queue) ]_vars


(***************************************************************************)
(* SpecRequestConnect: publishers of port.command.request_connect, the     *)
(* supervisor and the workers of the port, a caller of write_frame, and a  *)
(* device that is plugged in and unplugged. Nothing but the Serdes calls   *)
(* connect() and disconnect().                                             *)
(***************************************************************************)
RequestConnectPayloads ==
    { Payload("bool", TRUE), Payload("bool", FALSE), StrPayload, NonePayload }

RequestConnectMsg(payload) == [topic |-> "request_connect", payload |-> payload]

\* _on_request_connect(payload): the port's allowing-connections flag afterwards.
\* connect() is called only when the port is not connected, disconnect() only
\* when it is
on_request_connect(payload) ==
    IF payload = NonePayload THEN allowing_connections
    ELSE IF IsInstanceOf(payload, "bool")
    THEN IF payload.body
         THEN IF ~port_connected THEN TRUE ELSE allowing_connections
         ELSE IF port_connected THEN FALSE ELSE allowing_connections
    ELSE allowing_connections

RequestConnectInit ==
    /\ PortInit /\ LinkInit /\ SerdesInit /\ NoNoise /\ FnIdle /\ ScenarioIdle /\ MirrorIdle /\ XferIdle

\* any payload arrives on the .request_connect topic
OnRequestConnect ==
    \E payload \in RequestConnectPayloads :
        /\ allowing_connections' = on_request_connect(payload)
        /\ serdes_in' = <<RequestConnectMsg(payload)>>
        /\ UNCHANGED <<port, port_connected, port_error, stop_signal, tx_queue, rx_buffer,
                       rx_clear_signal, rx_queue, port_pc, tx_pc, tx_item, rx_pc, rec_pc,
                       rec_i, rec_seen>>
        /\ UNCHANGED <<rx_frame_received_signal, rx_file_response_signal,
                       refresh_state_signal, command_queue, file_request_queue,
                       t_transmit_pc, t_file_pc, serdes_pub, state_routed_since_clear,
                       file_routed_since_clear>>
        /\ UNCHANGED <<linkVars, mirrorVars, xferVars, statusVars, throttleVars,
                       noiseVars, fnVars, callerVars, scenarioVars>>

RequestConnectNext ==
    \/ OnRequestConnect
    \/ PortThreadStep
    \/ TxThreadStep
    \/ RxThreadStep
    \/ LifecycleWrite
    \/ Unplug
    \/ Replug

SpecRequestConnect == RequestConnectInit /\ [][RequestConnectNext]_vars

\* the bool published last on .request_connect, when the last message is one
LastRequestIs(v) == serdes_in = <<RequestConnectMsg(Payload("bool", v))>>

\* C30: the Serdes reflects port.command.request_connect into the Port:
\* once request_connect = v (a bool) has been published, the port's
\* allowing-connections flag equals v, whatever the connection state was at
\* that moment, and after request_connect = false the port does not become
\* connected until request_connect = true is published.
RequestConnectReflected ==
    [][ /\ \A v \in BOOLEAN : LastRequestIs(v)' => allowing_connections' = v
        /\ (LastRequestIs(FALSE) /\ LastRequestIs(FALSE)')
               => (port_connected' => port_connected) ]_vars


(***************************************************************************)
(* SpecBroadcast: the snapshot broadcaster (_ui_update_publisher_thread)   *)
(* statement by statement, a thread that delivers frontend.get messages,   *)
(* external pushes, and close(). Nobody else clears the ui-update event.   *)
(***************************************************************************)
BroadcastEditValues == { BoolList(SoaLen, TRUE), BoolList(SoaLen, FALSE), PyInt(1) }

BroadcastInit ==
    /\ MirrorConstructed
    /\ mirror_stop = FALSE
    /\ snapshot = {}
    /\ edit_pc = "idle"
    /\ edit_signalled = FALSE
    /\ cycle_has_edit = FALSE
    /\ dirty = FALSE
    /\ owed = FALSE
    /\ PortInit /\ LinkInit /\ SerdesInit /\ NoNoise /\ FnIdle /\ XferIdle
    /\ BroadcastRestIdle

\* wait_ui_update(): self._ui_update_event.wait(None) returns True
BcWake ==
    /\ publisher_pc = "wait"
    /\ ui_update_event
    /\ publisher_pc' = "clear"
    /\ UNCHANGED <<sleep_left, since_nested_get, mirrorVars, broadcastVars>>
    /\ UNCHANGED <<portVars, linkVars, serdesVars, xferVars, statusVars, noiseVars, fnVars,
                   callerVars, topicVars, broadcastRest>>

\* wait_ui_update(): self._ui_update_event.clear()
BcClear ==
    /\ publisher_pc = "clear"
    /\ ui_update_event' = FALSE
    /\ cycle_has_edit' = edit_signalled
    /\ edit_signalled' = FALSE
    /\ publisher_pc' = "pull"
    /\ UNCHANGED <<reference_dict, flat_dict, mirror_pub, last_push, frontend_pub>>
    /\ UNCHANGED <<mirror_stop, snapshot, edit_pc, dirty, owed>>
    /\ UNCHANGED <<sleep_left, since_nested_get>>
    /\ UNCHANGED <<portVars, linkVars, serdesVars, xferVars, statusVars, noiseVars, fnVars,
                   callerVars, topicVars, broadcastRest>>

\* payload=self.pull(): the argument of the publish is evaluated
BcPull ==
    /\ publisher_pc = "pull"
    /\ snapshot' = {pull}
    /\ dirty' = FALSE
    /\ publisher_pc' = "publish"
    /\ UNCHANGED <<mirror_stop, edit_pc, edit_signalled, cycle_has_edit, owed>>
    /\ UNCHANGED <<sleep_left, since_nested_get, mirrorVars>>
    /\ UNCHANGED <<portVars, linkVars, serdesVars, xferVars, statusVars, noiseVars, fnVars,
                   callerVars, topicVars, broadcastRest>>

\* pub.sendMessage(<root>.nested.get, payload=...), then _stop.wait(rate) begins
BcPublish ==
    /\ publisher_pc = "publish"
    /\ mirror_pub' = { Msg("nested.get", <<>>, s) : s \in snapshot }
    /\ last_push' = {}
    /\ frontend_pub' = {}
    /\ snapshot' = {}
    /\ owed' = dirty
    /\ publisher_pc' = "sleep"
    /\ UNCHANGED <<reference_dict, flat_dict, ui_update_event>>
    /\ UNCHANGED <<mirror_stop, edit_pc, edit_signalled, cycle_has_edit, dirty>>
    /\ UNCHANGED <<sleep_left, since_nested_get>>
    /\ UNCHANGED <<portVars, linkVars, serdesVars, xferVars, statusVars, noiseVars, fnVars,
                   callerVars, topicVars, broadcastRest>>

\* self._stop.wait(self._ui_max_publish_rate_s) returns (timeout, or stop set)
\* and the loop condition is tested
BcLoop ==
    /\ publisher_pc = "sleep"
    /\ publisher_pc' = IF mirror_stop THEN "done" ELSE "wait"
    /\ UNCHANGED <<sleep_left, since_nested_get, mirrorVars, broadcastVars>>
    /\ UNCHANGED <<portVars, linkVars, serdesVars, xferVars, statusVars, noiseVars, fnVars,
                   callerVars, topicVars, broadcastRest>>

\* one step of the broadcaster thread
BroadcasterStep == BcWake \/ BcClear \/ BcPull \/ BcPublish \/ BcLoop

\* close(): self._stop.set(); self._ui_update_event.set()
BcClose ==
    /\ ~mirror_stop
    /\ mirror_stop' = TRUE
    /\ ui_update_event' = TRUE
    /\ UNCHANGED <<reference_dict, flat_dict, mirror_pub, last_push, frontend_pub>>
    /\ UNCHANGED <<snapshot, edit_pc, edit_signalled, cycle_has_edit, dirty, owed>>
    /\ UNCHANGED <<portVars, linkVars, serdesVars, xferVars, statusVars, throttleVars,
                   noiseVars, fnVars, callerVars, topicVars, broadcastRest>>

\* _on_frontend_widget_publish: _push_path_no_publish and, when the leaf was
\* written, the publish on entries.get
BcFrontendWrite ==
    \E path \in EditablePaths, payload \in BroadcastEditValues :
        /\ edit_pc = "idle"
        /\ frontend_pub' = {Msg("frontend.get", path, payload)}
        /\ LET r == update_flattened_dict(flat_dict, path, payload)
               accepted == path \in FrontendSubscriptions /\ r.updated
           IN  /\ flat_dict' = IF accepted THEN r.flat ELSE flat_dict
               /\ mirror_pub' = IF accepted THEN {Msg("entries.get", path, payload)} ELSE {}
               /\ last_push' = IF path \in FrontendSubscriptions
                               THEN {Proposal("frontend.get", path, payload)} ELSE {}
               /\ edit_pc' = IF accepted THEN "set" ELSE "idle"
               /\ dirty' = (dirty \/ accepted)
               /\ owed' = (owed \/ accepted)
        /\ UNCHANGED <<reference_dict, ui_update_event>>
        /\ UNCHANGED <<mirror_stop, snapshot, edit_signalled, cycle_has_edit>>
        /\ UNCHANGED <<portVars, linkVars, serdesVars, xferVars, statusVars, throttleVars,
                       noiseVars, fnVars, callerVars, topicVars, broadcastRest>>

\* a handler that ends without scheduling a broadcast
BcFrontendSetNever ==
    /\ edit_pc = "set"
    /\ edit_pc' = "idle"
    /\ UNCHANGED <<mirrorVars, mirror_stop, snapshot, edit_signalled, cycle_has_edit,
                   dirty, owed>>
    /\ UNCHANGED <<portVars, linkVars, serdesVars, xferVars, statusVars, throttleVars,
                   noiseVars, fnVars, callerVars, topicVars, broadcastRest>>

\* _on_frontend_widget_publish: self._ui_update_event.set()
BcFrontendSet ==
    /\ edit_pc = "set"
    /\ ui_update_event' = TRUE
    /\ edit_signalled' = TRUE
    /\ edit_pc' = "idle"
    /\ UNCHANGED <<reference_dict, flat_dict, mirror_pub, last_push, frontend_pub>>
    /\ UNCHANGED <<mirror_stop, snapshot, cycle_has_edit, dirty, owed>>
    /\ UNCHANGED <<portVars, linkVars, serdesVars, xferVars, statusVars, throttleVars,
                   noiseVars, fnVars, callerVars, topicVars, broadcastRest>>

\* push, push_path, entries.set and nested.set with values of the right type
BroadcastPushValues == { PyInt(1), BoolList(SoaLen, TRUE) }
BcPushPath ==
    \E path \in {CountPath, SoaPath}, new_val \in BroadcastPushValues :
        edit_pc = "idle" /\ push_path("push_path", path, new_val)
BcPush ==
    edit_pc = "idle" /\ push("push", PyDict("count" :> PyInt(1)))
BcExternalPathPublish ==
    \E path \in {CountPath, SoaPath}, payload \in BroadcastPushValues :
        edit_pc = "idle" /\ push_path("entries.set", path, payload)
BcExternalNestedPublish ==
    edit_pc = "idle" /\ push("nested.set", PyDict("count" :> PyInt(1)))

BroadcastNext ==
    \/ BroadcasterStep
    \/ BcClose
    \/ BcFrontendWrite
    \/ BcFrontendSet
    \/ BcPushPath
    \/ BcPush
    \/ BcExternalPathPublish
    \/ BcExternalNestedPublish

SpecBroadcast ==
    /\ BroadcastInit
    /\ [][BroadcastNext]_vars
    /\ WF_vars(BroadcasterStep)
    /\ WF_vars(BcFrontendSet)

\* C31: after construction the aggregator publishes nested.get only when it
\* has received a frontend.get update: the event whose clearing started the
\* broadcaster's cycle had been set by an accepted frontend.get update, and a
\* step of push, push_path, entries.set, nested.set or close() publishes
\* nothing on nested.get.
NestedGetOnlyOnEdit ==
    [][ /\ (publisher_pc = "publish" /\ publisher_pc' = "sleep") => cycle_has_edit
        /\ (publisher_pc' = publisher_pc /\ mirror_pub' # mirror_pub)
              => \A msg \in mirror_pub' : msg.topic # "nested.get" ]_vars


\* C39: no frontend edit is lost by the snapshot broadcaster. While the mirror
\* is not closed, every accepted frontend.get update is followed by a pull of
\* the broadcaster (dirty: an accepted update was written since the last pull),
\* and every snapshot pulled is published on nested.get, for every interleaving
\* of the updates with the broadcaster's wait, clear, pull, publish and sleep.
NoEditLost ==
    /\ dirty ~> (~dirty \/ mirror_stop)
    /\ (publisher_pc = "publish") ~> (publisher_pc = "sleep")

\* the broadcaster has published a snapshot that holds a frontend edit, pulled
\* after the edit was written, and no edit is waiting
NoEditLostWitness ==
    /\ publisher_pc = "sleep"
    /\ cycle_has_edit
    /\ ~owed /\ ~dirty
    /\ ~mirror_stop
    /\ edit_pc = "idle"
    /\ flat_dict # flatten(reference_dict)
    /\ mirror_pub = {Msg("nested.get", <<>>, unflatten(flat_dict))}

(***************************************************************************)
(* SpecAwait: the transmit, file-request and receive workers of the Serdes *)
(* on a connected port that a caller of disconnect() and the supervisor    *)
(* take down, with a device that sends node_state and file responses       *)
(***************************************************************************)
AwaitFrames == {EncNodeState, EncFileRequest}

AwaitInit ==
    /\ PortConnectedInit /\ LinkInit /\ SerdesInit /\ NoNoise /\ FnIdle /\ ScenarioIdle /\ MirrorIdle /\ XferIdle

\* the port's RX worker enqueues a completed frame sent by the device
AwaitRxFrame ==
    \E frame \in AwaitFrames :
        /\ port_connected
        /\ Len(rx_queue) < MaxInbound
        /\ rx_queue' = Append(rx_queue, frame)
        /\ UNCHANGED <<allowing_connections, port, port_connected, port_error,
                       stop_signal, tx_queue, rx_buffer, rx_clear_signal, port_pc, tx_pc,
                       tx_item, rx_pc, rec_pc, rec_i, rec_seen>>
        /\ UNCHANGED <<linkVars, serdesVars, mirrorVars, xferVars, statusVars, throttleVars,
                       noiseVars, fnVars, callerVars, topicVars, scenarioVars>>

AwaitNext ==
    \/ TransmitSend
    \/ TransmitAcked
    \/ TransmitTimeout
    \/ TransmitRecovered
    \/ FileRequestSend
    \/ FileRequestAcked
    \/ FileRequestTimeout
    \/ FileRequestRecovered
    \/ OnFileRequest
    \/ SerdesReceive
    \/ SerdesRecoverIter
    \/ AwaitRxFrame
    \/ PortTxFrame
    \/ Disconnect
    \/ PortCheck
    \/ PortJoinTx
    \/ PortJoinRx
    \/ PortDisconnect
    \/ PortFlow

SpecAwait == AwaitInit /\ [][AwaitNext]_vars

MaxPublished == 3          \* commands published on .command

\* NodeStateDefaults.MAGIC_NUMBER = 0xA5A5A5A5, as its four bytes
MAGIC_NUMBER == <<165, 165, 165, 165>>

\* a NodeState: its magic number, its number among the published commands
\* (0 for the synthesized one) and whether its fields hold values of their types
NodeStateCmd(magic, seq, well_typed) ==
    [magic_number |-> magic, seq |-> seq, well_typed |-> well_typed]

\* NodeStateDefaults.default_command_empty()
default_command_empty == NodeStateCmd(MAGIC_NUMBER, 0, TRUE)

\* bytes(Communication(node_state=command)), for a command that encodes
Serialize(command) == EncNodeState \o command.magic_number \o <<command.seq>>

\* a worker that takes the newest command
get_nowait_or_defaultNewest(q) ==
    IF q = <<>> THEN [command |-> default_command_empty, rest |-> <<>>]
    ELSE [command |-> q[Len(q)], rest |-> SubSeq(q, 1, Len(q) - 1)]

\* command = self._command_queue.get_nowait(), or the empty default on Empty
get_nowait_or_default(q) ==
    IF q = <<>> THEN [command |-> default_command_empty, rest |-> <<>>]
    ELSE [command |-> Head(q), rest |-> Tail(q)]

CycleInit ==
    /\ cycle_tick = 0
    /\ published = 0
    /\ submitted = <<>>
    /\ PortInit /\ LinkInit /\ SerdesInit /\ NoNoise /\ FnIdle /\ MirrorIdle /\ XferIdle
    /\ CycleRestIdle

\* _on_node_command: the next NodeState is published on the command topic
CyclePublish ==
    \E well_typed \in BOOLEAN :
        LET payload == Payload("NodeState",
                               NodeStateCmd(<<0, 0, 0, 0>>, published + 1, well_typed))
        IN  /\ published < MaxPublished
            /\ published' = published + 1
            /\ command_queue' = on_node_command(payload)
            /\ serdes_in' = <<[topic |-> "command", payload |-> payload]>>
            /\ UNCHANGED <<rx_frame_received_signal, rx_file_response_signal,
                           refresh_state_signal, file_request_queue, t_transmit_pc,
                           t_file_pc, serdes_pub, state_routed_since_clear,
                           file_routed_since_clear>>
            /\ UNCHANGED <<cycle_tick, submitted>>
            /\ UNCHANGED <<portVars, linkVars, mirrorVars, xferVars, statusVars,
                           throttleVars, noiseVars, fnVars, callerVars, cycleRest>>

\* _transmit_thread: one pass of the loop up to the wait for the ack. Not
\* connected: continue. Connected: take a command or the default, encode it
\* (a failure is logged and the pass ends), clear the ack, write_frame
CycleTransmit ==
    /\ t_transmit_pc = "idle"
    /\ Len(tx_queue) < MaxTxPending
    /\ cycle_tick' = 1 - cycle_tick
    /\ refresh_state_signal' = FALSE
    /\ IF ~port_connected
       THEN UNCHANGED <<command_queue, rx_frame_received_signal,
                        state_routed_since_clear, tx_queue, t_transmit_pc, submitted>>
       ELSE LET g == get_nowait_or_default(command_queue)
            IN  /\ command_queue' = g.rest
                /\ IF ~g.command.well_typed
                   THEN UNCHANGED <<rx_frame_received_signal, state_routed_since_clear,
                                    tx_queue, t_transmit_pc, submitted>>
                   ELSE /\ rx_frame_received_signal' = FALSE
                        /\ state_routed_since_clear' = FALSE
                        /\ write_frame(Serialize(g.command))
                        /\ t_transmit_pc' = "wait"
                        /\ submitted' = IF g.command.seq = 0 THEN submitted
                                        ELSE Append(submitted, g.command.seq)
    /\ UNCHANGED <<rx_file_response_signal, file_request_queue, t_file_pc,
                   serdes_pub, file_routed_since_clear, published>>
    /\ UNCHANGED <<allowing_connections, port, port_connected, port_error, stop_signal,
                   rx_buffer, rx_clear_signal, rx_queue, port_pc, tx_pc, tx_item, rx_pc,
                   rec_pc, rec_i, rec_seen>>
    /\ UNCHANGED <<linkVars, mirrorVars, xferVars, statusVars, throttleVars,
                   noiseVars, fnVars, callerVars, topicVars, cycleRest>>

\* the rest of the pass: the wait returns on the ack, or it times out and
\* recover(), if called, has returned
CycleWaitEnds ==
    /\ t_transmit_pc = "wait"
    /\ t_transmit_pc' = "idle"
    /\ UNCHANGED <<rx_frame_received_signal, rx_file_response_signal, refresh_state_signal,
                   command_queue, file_request_queue, t_file_pc, serdes_pub,
                   state_routed_since_clear, file_routed_since_clear>>
    /\ UNCHANGED <<portVars, linkVars, mirrorVars, xferVars, statusVars, throttleVars,
                   noiseVars, fnVars, callerVars, topicVars, scenarioVars>>

CycleNext ==
    \/ CyclePublish
    \/ CycleTransmit
    \/ CycleWaitEnds
    \/ PortTxFrame
    \/ Disconnect
    \/ PortThreadStep

SpecCycle == CycleInit /\ [][CycleNext]_vars

\* the frame at the tail of the TX queue after a pass that submitted one
SubmittedIs(command) ==
    tx_queue' = Append(tx_queue, BuildFrame(Serialize(command)))

\* a pass that finds the port not connected dequeues and submits nothing
IdlePassWhenDisconnected ==
    ~port_connected => (command_queue' = command_queue /\ tx_queue' = tx_queue)

\* the commands handed to write_frame so far are in the order of their
\* publication and none appears twice
SubmittedInOrder ==
    \A i, j \in 1..Len(submitted') : i < j => submitted'[i] < submitted'[j]

MaxFilePublished == 3      \* file requests published on .file_request

\* a NeuralMemFileRequest: its number among the published requests and
\* whether its fields hold values of their types
FileRequestMsg(seq, well_typed) == [seq |-> seq, well_typed |-> well_typed]

\* bytes(Communication(neural_mem_request=file_request)), for a request that encodes
SerializeFile(file_request) == EncFileRequest \o <<file_request.seq>>

FileCycleInit ==
    /\ file_tick = 0
    /\ file_published = 0
    /\ file_submitted = <<>>
    /\ file_dropped = {}
    /\ PortInit /\ LinkInit /\ SerdesInit /\ NoNoise /\ FnIdle /\ MirrorIdle /\ XferIdle
    /\ FileCycleRestIdle

\* _on_file_request: the next file request is published on the file_request topic
FcPublish ==
    \E well_typed \in BOOLEAN :
        LET payload == Payload("NeuralMemFileRequest",
                               FileRequestMsg(file_published + 1, well_typed))
        IN  /\ file_published < MaxFilePublished
            /\ file_published' = file_published + 1
            /\ file_request_queue' = on_file_request(payload)
            /\ serdes_in' = <<[topic |-> "file_request", payload |-> payload]>>
            /\ UNCHANGED <<rx_frame_received_signal, rx_file_response_signal,
                           refresh_state_signal, command_queue, t_transmit_pc,
                           t_file_pc, serdes_pub, state_routed_since_clear,
                           file_routed_since_clear>>
            /\ UNCHANGED <<file_tick, file_submitted, file_dropped>>
            /\ UNCHANGED <<portVars, linkVars, mirrorVars, xferVars, statusVars,
                           throttleVars, noiseVars, fnVars, callerVars, fileCycleRest>>

\* a worker that leaves the request in the queue when the port is not connected
FcDequeueKeeps ==
    /\ t_file_pc = "idle"
    /\ file_request_queue # <<>>
    /\ Len(tx_queue) < MaxTxPending
    /\ file_tick' = 1 - file_tick
    /\ LET file_request == Head(file_request_queue)
       IN  IF ~port_connected
           THEN UNCHANGED <<file_request_queue, rx_file_response_signal,
                            file_routed_since_clear, tx_queue, t_file_pc,
                            file_submitted, file_dropped>>
           ELSE IF ~file_request.well_typed
           THEN /\ file_request_queue' = Tail(file_request_queue)
                /\ UNCHANGED <<rx_file_response_signal, file_routed_since_clear, tx_queue,
                               t_file_pc, file_submitted, file_dropped>>
           ELSE /\ file_request_queue' = Tail(file_request_queue)
                /\ rx_file_response_signal' = FALSE
                /\ file_routed_since_clear' = FALSE
                /\ write_frame(SerializeFile(file_request))
                /\ t_file_pc' = "wait"
                /\ file_submitted' = Append(file_submitted, file_request.seq)
                /\ UNCHANGED file_dropped
    /\ UNCHANGED <<rx_frame_received_signal, refresh_state_signal, command_queue,
                   t_transmit_pc, serdes_pub, state_routed_since_clear, file_published>>
    /\ UNCHANGED <<allowing_connections, port, port_connected, port_error, stop_signal,
                   rx_buffer, rx_clear_signal, rx_queue, port_pc, tx_pc, tx_item, rx_pc,
                   rec_pc, rec_i, rec_seen>>
    /\ UNCHANGED <<linkVars, mirrorVars, xferVars, statusVars, throttleVars,
                   noiseVars, fnVars, callerVars, topicVars, fileCycleRest>>

\* _file_request_thread: one request is taken from the queue. Not connected:
\* warning and continue. Connected: encode (a failure is logged and the pass
\* ends), clear the file ack, write_frame, and the wait for the ack begins
FcDequeue ==
    /\ t_file_pc = "idle"
    /\ file_request_queue # <<>>
    /\ Len(tx_queue) < MaxTxPending
    /\ file_tick' = 1 - file_tick
    /\ file_request_queue' = Tail(file_request_queue)
    /\ LET file_request == Head(file_request_queue)
       IN  IF ~port_connected
           THEN /\ file_dropped' = file_dropped \cup {file_request.seq}
                /\ UNCHANGED <<rx_file_response_signal, file_routed_since_clear, tx_queue,
                               t_file_pc, file_submitted>>
           ELSE IF ~file_request.well_typed
           THEN UNCHANGED <<rx_file_response_signal, file_routed_since_clear, tx_queue,
                            t_file_pc, file_submitted, file_dropped>>
           ELSE /\ rx_file_response_signal' = FALSE
                /\ file_routed_since_clear' = FALSE
                /\ write_frame(SerializeFile(file_request))
                /\ t_file_pc' = "wait"
                /\ file_submitted' = Append(file_submitted, file_request.seq)
                /\ UNCHANGED file_dropped
    /\ UNCHANGED <<rx_frame_received_signal, refresh_state_signal, command_queue,
                   t_transmit_pc, serdes_pub, state_routed_since_clear, file_published>>
    /\ UNCHANGED <<allowing_connections, port, port_connected, port_error, stop_signal,
                   rx_buffer, rx_clear_signal, rx_queue, port_pc, tx_pc, tx_item, rx_pc,
                   rec_pc, rec_i, rec_seen>>
    /\ UNCHANGED <<linkVars, mirrorVars, xferVars, statusVars, throttleVars,
                   noiseVars, fnVars, callerVars, topicVars, fileCycleRest>>

\* the port's RX worker enqueues a file response sent by the device
FcRxFrame ==
    /\ port_connected
    /\ t_file_pc = "wait"
    /\ Len(rx_queue) < MaxInbound
    /\ rx_queue' = Append(rx_queue, EncFileRequest)
    /\ UNCHANGED <<allowing_connections, port, port_connected, port_error,
                   stop_signal, tx_queue, rx_buffer, rx_clear_signal, port_pc, tx_pc,
                   tx_item, rx_pc, rec_pc, rec_i, rec_seen>>
    /\ UNCHANGED <<linkVars, serdesVars, mirrorVars, xferVars, statusVars, throttleVars,
                   noiseVars, fnVars, callerVars, topicVars, scenarioVars>>

FileCycleNext ==
    \/ FcPublish
    \/ FcDequeue
    \/ FileRequestAcked
    \/ FileRequestTimeout
    \/ FileRequestRecovered
    \/ SerdesRecoverIter
    \/ SerdesReceive
    \/ FcRxFrame
    \/ PortTxFrame
    \/ Disconnect
    \/ PortThreadStep

SpecFileCycle == FileCycleInit /\ [][FileCycleNext]_vars

\* C34: a file request that the file-request worker dequeues while the port
\* is not connected is dropped: it leaves the queue, no frame is written,
\* the file ack is neither cleared nor awaited, no recover() is called, and it
\* is never sent later; while connected, requests are submitted in queue
\* order, one at a time.
DisconnectedRequestDropped ==
    [][ /\ (file_tick' # file_tick) =>
              /\ t_file_pc = "idle"
              /\ file_request_queue # <<>>
              /\ file_request_queue' = Tail(file_request_queue)
              /\ ~port_connected =>
                    /\ tx_queue' = tx_queue
                    /\ rx_file_response_signal' = rx_file_response_signal
                    /\ t_file_pc' = "idle"
                    /\ <<rec_pc, rec_i>>' = <<rec_pc, rec_i>>
              /\ (port_connected /\ Head(file_request_queue).well_typed) =>
                    /\ tx_queue' = Append(tx_queue,
                                          BuildFrame(SerializeFile(Head(file_request_queue))))
                    /\ t_file_pc' = "wait"
        /\ \A i \in 1..Len(file_submitted') : file_submitted'[i] \notin file_dropped'
        /\ \A i, j \in 1..Len(file_submitted') :
              i < j => file_submitted'[i] < file_submitted'[j]
        /\ Len(tx_queue') > Len(tx_queue) =>
              (file_tick' # file_tick \/ (rec_pc = "iter" /\ rec_i' # rec_i)) ]_vars

\* request 1 was dropped while the port was not connected, request 2 was
\* submitted after the connection and its frame is the only one written
DisconnectedRequestDroppedWitness ==
    /\ file_dropped = {1}
    /\ file_submitted = <<2>>
    /\ tx_queue = <<BuildFrame(SerializeFile(FileRequestMsg(2, TRUE)))>>
    /\ t_file_pc = "wait"
    /\ ~rx_file_response_signal
    /\ port_connected


(***************************************************************************)
(* SpecDrain: numbered commands published while the port stays connected;  *)
(* the transmit worker sends, is acknowledged or times out and recovers;   *)
(* the workers are scheduled fairly                                        *)
(***************************************************************************)
MaxDrained == 2            \* commands published on .command

DrainInit ==
    /\ cycle_tick = 0
    /\ published = 0
    /\ submitted = <<>>
    /\ PortConnectedInit /\ LinkInit /\ SerdesInit /\ NoNoise /\ FnIdle /\ MirrorIdle /\ XferIdle
    /\ CycleRestIdle

\* _on_node_command for the commands of this scenario
DrainPublish == published < MaxDrained /\ CyclePublish

\* the transmit worker between write_frame and its next pass
TransmitAwait == TransmitAcked \/ TransmitTimeout \/ TransmitRecovered

\* the port's RX worker enqueues a node_state frame that the device sent in
\* answer to a command, once the receive worker has taken the one before
DrainRxFrame ==
    /\ port_connected
    /\ t_transmit_pc \in {"wait", "recover"}
    /\ rx_queue = <<>>
    /\ rx_queue' = <<EncNodeState>>
    /\ UNCHANGED <<allowing_connections, port, port_connected, port_error,
                   stop_signal, tx_queue, rx_buffer, rx_clear_signal, port_pc, tx_pc,
                   tx_item, rx_pc, rec_pc, rec_i, rec_seen>>
    /\ UNCHANGED <<linkVars, serdesVars, mirrorVars, xferVars, statusVars, throttleVars,
                   noiseVars, fnVars, callerVars, topicVars, scenarioVars>>

DrainNext ==
    \/ DrainPublish
    \/ CycleTransmit
    \/ TransmitAwait
    \/ SerdesRecoverIter
    \/ SerdesReceive
    \/ DrainRxFrame
    \/ PortTxFrame

SpecDrain ==
    /\ DrainInit
    /\ [][DrainNext]_vars
    /\ WF_vars(CycleTransmit)
    /\ WF_vars(TransmitAwait)
    /\ WF_vars(SerdesRecoverIter)
    /\ WF_vars(SerdesReceive)
    /\ WF_vars(PortTxFrame)

\* command number k waits in the command queue
InCommandQueue(k) == \E i \in 1..Len(command_queue) : command_queue[i].seq = k
\* command number k was handed to write_frame
HandedToWriteFrame(k) == \E i \in 1..Len(submitted) : submitted[i] = k

RelayFileSize == MAX_CHUNK_SIZE + 1

\* bytes(Communication(neural_mem_request=file_request)) for a read request
SerializeAccess(file_request) ==
    EncFileRequest \o <<1, file_request.offset \div 256, file_request.offset % 256>>

\* the read request a frame of the scenario carries
ParseAccess(frame) ==
    LET outbound_bytes == SubSeq(frame, 4, Len(frame))
        off == outbound_bytes[3] * 256 + outbound_bytes[4]
    IN  ReadRequest(XferFilename, off, Min(RelayFileSize - off, MAX_CHUNK_SIZE))

RelayInit ==
    /\ xf_pc = "while"
    /\ filesize = RelayFileSize
    /\ offset = 0
    /\ file_data = <<>>
    /\ attempt = 0
    /\ file_response_event = FALSE
    /\ pending_file_response = NoResponse
    /\ xf_request = NoRequest
    /\ xf_requests = 0
    /\ xf_saved = <<>>
    /\ xf_outcome = None
    /\ xf_chunk_reqs = 0
    /\ dev_responses = 0
    /\ relay_device = <<>>
    /\ PortConnectedInit /\ LinkInit /\ SerdesInit /\ NoNoise /\ FnIdle /\ MirrorIdle
    /\ RelayRestIdle

\* head of the for loop: the attempts are used up, or the next request is
\* built, the event and the pending response are cleared and the request is
\* published on the file_request topic, where _on_file_request enqueues it
RelayRequest ==
    /\ xf_pc = "request"
    /\ IF attempt >= max_retries
       THEN /\ xf_pc' = "failed"
            /\ UNCHANGED <<file_response_event, pending_file_response, xf_request,
                           xf_requests, xf_chunk_reqs, file_request_queue, serdes_in>>
       ELSE LET read_request == ReadRequest(XferFilename, offset,
                                            Min(filesize - offset, MAX_CHUNK_SIZE))
                payload == Payload("NeuralMemFileRequest", read_request)
            IN  /\ xf_request' = read_request
                /\ file_response_event' = FALSE
                /\ pending_file_response' = NoResponse
                /\ xf_requests' = xf_requests + 1
                /\ xf_chunk_reqs' = xf_chunk_reqs + 1
                /\ file_request_queue' = on_file_request(payload)
                /\ serdes_in' = <<[topic |-> "file_request", payload |-> payload]>>
                /\ xf_pc' = "wait"
    /\ UNCHANGED <<filesize, offset, file_data, attempt, xf_saved, xf_outcome,
                   dev_responses>>
    /\ UNCHANGED <<rx_frame_received_signal, rx_file_response_signal, refresh_state_signal,
                   command_queue, t_transmit_pc, t_file_pc, serdes_pub,
                   state_routed_since_clear, file_routed_since_clear>>
    /\ UNCHANGED <<portVars, linkVars, mirrorVars, statusVars, throttleVars, noiseVars,
                   fnVars, callerVars, scenarioVars>>

\* _file_request_thread: the oldest request is taken from the queue, encoded
\* and handed to write_frame, and the wait for the acknowledgement begins
RelaySend ==
    /\ t_file_pc = "idle"
    /\ file_request_queue # <<>>
    /\ port_connected
    /\ file_request_queue' = Tail(file_request_queue)
    /\ rx_file_response_signal' = FALSE
    /\ file_routed_since_clear' = FALSE
    /\ write_frame(SerializeAccess(Head(file_request_queue)))
    /\ t_file_pc' = "wait"
    /\ UNCHANGED <<rx_frame_received_signal, refresh_state_signal, command_queue,
                   t_transmit_pc, serdes_pub, state_routed_since_clear>>
    /\ UNCHANGED <<allowing_connections, port, port_connected, port_error, stop_signal,
                   rx_buffer, rx_clear_signal, rx_queue, port_pc, tx_pc, tx_item, rx_pc,
                   rec_pc, rec_i, rec_seen>>
    /\ UNCHANGED <<linkVars, mirrorVars, xferVars, statusVars, throttleVars,
                   noiseVars, fnVars, callerVars, topicVars, scenarioVars>>

\* the port's TX thread writes the oldest frame and the device receives it
RelayTxFrame ==
    /\ tx_queue # <<>>
    /\ tx_queue' = Tail(tx_queue)
    /\ relay_device' = Append(relay_device, ParseAccess(Head(tx_queue)))
    /\ UNCHANGED <<allowing_connections, port, port_connected, port_error, stop_signal,
                   rx_buffer, rx_clear_signal, rx_queue, port_pc, tx_pc, tx_item, rx_pc,
                   rec_pc, rec_i, rec_seen>>
    /\ UNCHANGED <<linkVars, serdesVars, mirrorVars, xferVars, statusVars, throttleVars,
                   noiseVars, fnVars, callerVars, topicVars, relayRest>>

\* the device answers the oldest request it holds with the bytes asked for;
\* _receive_thread sets the file acknowledgement and publishes the response,
\* and _on_file_response stores it and sets the host's event
RelayAnswer ==
    /\ relay_device # <<>>
    /\ relay_device' = Tail(relay_device)
    /\ LET file_request == Head(relay_device)
       IN  pending_file_response' =
               [file_request EXCEPT !.data = Bytes(BytesLen(file_request.data), 1)]
    /\ file_response_event' = TRUE
    /\ rx_file_response_signal' = TRUE
    /\ file_routed_since_clear' = TRUE
    /\ serdes_pub' = {"file_response"}
    /\ UNCHANGED <<rx_frame_received_signal, refresh_state_signal, command_queue,
                   file_request_queue, t_transmit_pc, t_file_pc,
                   state_routed_since_clear>>
    /\ UNCHANGED <<xf_pc, filesize, offset, file_data, attempt, xf_request,
                   xf_requests, xf_saved, xf_outcome, xf_chunk_reqs, dev_responses>>
    /\ UNCHANGED <<portVars, linkVars, mirrorVars, statusVars, throttleVars,
                   noiseVars, fnVars, callerVars, topicVars, relayRest>>

RelayNext ==
    \/ XfWhile
    \/ RelayRequest
    \/ XfWait
    \/ XfSave
    \/ RelaySend
    \/ FileRequestAcked
    \/ RelayTxFrame
    \/ RelayAnswer

SpecRelay == RelayInit /\ [][RelayNext]_vars

\* C40: when the chunked read runs on top of the file-request worker and the
\* host's chunk timeout is shorter than the worker's, a transfer aborts only if
\* the device failed to answer max_retries consecutive requests for the same
\* chunk: a request re-issued after a host timeout, or the late response to
\* it, never makes an attempt for a later chunk count as failed. An attempt
\* counts as failed in the step of the wait that raises `attempt`.
LateResponseNeverFailsAttempt ==
    [][ (xf_pc = "wait" /\ attempt' = attempt + 1) =>
            ~(/\ file_response_event
              /\ pending_file_response # NoResponse
              /\ pending_file_response.offset < offset) ]_vars

(***************************************************************************)
(* SpecLock: threads that share one mirror. Two threads run push and the   *)
(* frontend handler on it while the broadcaster thread pulls and publishes;*)
(* every acquisition and release of self._lock is a step of its own        *)
(***************************************************************************)
CallerThreads == {"gui", "device"}
BroadcasterThread == "broadcaster"
LockThreads == CallerThreads \cup {BroadcasterThread}

\* the leaves of the updates pushed, in the order of flat_update.items()
LockUpdates ==
    { <<(<<CountPath, PyInt(1)>>)>>,
      <<(<<CountPath, PyInt(2)>>)>>,
      <<(<<CountPath, PyStr(0)>>)>>,
      <<(<<CountPath, PyInt(1)>>), (<<SoaPath, BoolList(SoaLen, TRUE)>>)>> }

NoCall == [op |-> "None", todo |-> <<>>, updated |-> {}]

\* the positions at which a thread is inside `with self._lock:`
InsideLock == {"validate", "write", "copy"}
\* the positions at which a thread publishes, waits on an event or sleeps
Suspended == {"publish", "set", "wait", "sleep"}

LockInit ==
    /\ MirrorConstructed
    /\ lock_owner = "None"
    /\ lk_pc = [t \in LockThreads |-> IF t = BroadcasterThread THEN "wait" ELSE "idle"]
    /\ lk_call = [t \in LockThreads |-> NoCall]
    /\ lk_read = [t \in LockThreads |-> <<>>]
    /\ PortInit /\ LinkInit /\ SerdesInit /\ NoNoise /\ FnIdle /\ XferIdle
    /\ LockRestIdle

LockFrame ==
    /\ UNCHANGED <<reference_dict, last_push, frontend_pub>>
    /\ UNCHANGED <<portVars, linkVars, serdesVars, xferVars, statusVars, throttleVars,
                   noiseVars, fnVars, callerVars, topicVars, lockRest>>

\* a thread enters push(nested_update) or _on_frontend_widget_publish(payload, path)
LkCall(t) ==
    \E op \in {"push", "frontend.get"}, todo \in LockUpdates :
        /\ t \in CallerThreads
        /\ lk_pc[t] = "idle"
        /\ op = "frontend.get" => Len(todo) = 1
        /\ lk_call' = [lk_call EXCEPT ![t] = [op |-> op, todo |-> todo, updated |-> {}]]
        /\ lk_pc' = [lk_pc EXCEPT ![t] = "acquire"]
        /\ UNCHANGED <<lock_owner, lk_read, flat_dict, mirror_pub, ui_update_event>>
        /\ LockFrame

\* an acquisition that does not wait for the holder
LkAcquireAnyway(t) ==
    /\ lk_pc[t] = "acquire"
    /\ lock_owner' = t
    /\ lk_pc' = [lk_pc EXCEPT ![t] = IF t = BroadcasterThread THEN "copy" ELSE "validate"]
    /\ UNCHANGED <<lk_call, lk_read, flat_dict, mirror_pub, ui_update_event>>
    /\ LockFrame

\* with self._lock: entered once no other thread holds the lock
LkAcquire(t) ==
    /\ lk_pc[t] = "acquire"
    /\ lock_owner = "None"
    /\ lock_owner' = t
    /\ lk_pc' = [lk_pc EXCEPT ![t] = IF t = BroadcasterThread THEN "copy" ELSE "validate"]
    /\ UNCHANGED <<lk_call, lk_read, flat_dict, mirror_pub, ui_update_event>>
    /\ LockFrame

\* _update_flattened_dict reads the leaf it validates against
LkValidate(t) ==
    /\ lk_pc[t] = "validate"
    /\ LET path == Head(lk_call[t].todo)[1]
       IN  lk_read' = [lk_read EXCEPT ![t] =
                          IF path \in DOMAIN flat_dict THEN <<flat_dict[path]>> ELSE <<>>]
    /\ lk_pc' = [lk_pc EXCEPT ![t] = "write"]
    /\ UNCHANGED <<lock_owner, lk_call, flat_dict, mirror_pub, ui_update_event>>
    /\ LockFrame

\* _update_flattened_dict writes the leaf if the value matched what it read;
\* _push_path_no_publish returns and the lock is released
LkWrite(t) ==
    /\ lk_pc[t] = "write"
    /\ LET path == Head(lk_call[t].todo)[1]
           new_val == Head(lk_call[t].todo)[2]
           seen == IF lk_read[t] = <<>> THEN flat_dict
                   ELSE [flat_dict EXCEPT ![path] = lk_read[t][1]]
           r == update_flattened_dict(seen, path, new_val)
           rest == Tail(lk_call[t].todo)
           updated == IF r.updated THEN lk_call[t].updated \cup {path}
                      ELSE lk_call[t].updated
       IN  /\ flat_dict' = r.flat
           /\ lk_call' = [lk_call EXCEPT ![t].todo = rest, ![t].updated = updated]
           /\ lk_pc' = [lk_pc EXCEPT ![t] =
                           IF rest # <<>> THEN "acquire"
                           ELSE IF updated # {} THEN "publish" ELSE "idle"]
    /\ lock_owner' = "None"
    /\ lk_read' = [lk_read EXCEPT ![t] = <<>>]
    /\ UNCHANGED <<mirror_pub, ui_update_event>>
    /\ LockFrame

\* push: frontend.set per updated path; the frontend handler: entries.get
LkPublish(t) ==
    /\ t \in CallerThreads
    /\ lk_pc[t] = "publish"
    /\ IF lk_call[t].op = "push"
       THEN /\ mirror_pub' = { Msg("frontend.set", path, flat_dict[path])
                               : path \in lk_call[t].updated }
            /\ lk_pc' = [lk_pc EXCEPT ![t] = "idle"]
       ELSE /\ mirror_pub' = { Msg("entries.get", path, flat_dict[path])
                               : path \in lk_call[t].updated }
            /\ lk_pc' = [lk_pc EXCEPT ![t] = "set"]
    /\ UNCHANGED <<lock_owner, lk_call, lk_read, flat_dict, ui_update_event>>
    /\ LockFrame

\* the frontend handler: self._ui_update_event.set()
LkSet(t) ==
    /\ lk_pc[t] = "set"
    /\ ui_update_event' = TRUE
    /\ lk_pc' = [lk_pc EXCEPT ![t] = "idle"]
    /\ UNCHANGED <<lock_owner, lk_call, lk_read, flat_dict, mirror_pub>>
    /\ LockFrame

\* the broadcaster: wait_ui_update returns with the event cleared, pull() begins
LkWake ==
    /\ lk_pc[BroadcasterThread] = "wait"
    /\ ui_update_event
    /\ ui_update_event' = FALSE
    /\ lk_pc' = [lk_pc EXCEPT ![BroadcasterThread] = "acquire"]
    /\ UNCHANGED <<lock_owner, lk_call, lk_read, flat_dict, mirror_pub>>
    /\ LockFrame

\* pull: flat_copy = copy.deepcopy(self._flat_dict), and the lock is released
LkCopy ==
    /\ lk_pc[BroadcasterThread] = "copy"
    /\ lk_read' = [lk_read EXCEPT ![BroadcasterThread] = <<flat_dict>>]
    /\ lock_owner' = "None"
    /\ lk_pc' = [lk_pc EXCEPT ![BroadcasterThread] = "publish"]
    /\ UNCHANGED <<lk_call, flat_dict, mirror_pub, ui_update_event>>
    /\ LockFrame

\* the broadcaster publishes the snapshot on nested.get
LkBroadcast ==
    /\ lk_pc[BroadcasterThread] = "publish"
    /\ mirror_pub' = {Msg("nested.get", <<>>, unflatten(lk_read[BroadcasterThread][1]))}
    /\ lk_read' = [lk_read EXCEPT ![BroadcasterThread] = <<>>]
    /\ lk_pc' = [lk_pc EXCEPT ![BroadcasterThread] = "sleep"]
    /\ UNCHANGED <<lock_owner, lk_call, flat_dict, ui_update_event>>
    /\ LockFrame

\* self._stop.wait(self._ui_max_publish_rate_s) ends
LkSleepEnds ==
    /\ lk_pc[BroadcasterThread] = "sleep"
    /\ lk_pc' = [lk_pc EXCEPT ![BroadcasterThread] = "wait"]
    /\ UNCHANGED <<lock_owner, lk_call, lk_read, flat_dict, mirror_pub, ui_update_event>>
    /\ LockFrame

\* what the holder of the lock does next
LkCritical(t) == LkValidate(t) \/ LkWrite(t) \/ (t = BroadcasterThread /\ LkCopy)

LockNext ==
    \/ \E t \in CallerThreads : LkCall(t)
    \/ \E t \in LockThreads : LkAcquire(t)
    \/ \E t \in CallerThreads : LkValidate(t)
    \/ \E t \in CallerThreads : LkWrite(t)
    \/ \E t \in CallerThreads : LkPublish(t)
    \/ \E t \in CallerThreads : LkSet(t)
    \/ LkWake
    \/ LkCopy
    \/ LkBroadcast
    \/ LkSleepEnds

SpecLock == LockInit /\ [][LockNext]_vars

\* C37: no thread holds the mirror lock while it publishes, waits on an event
\* or sleeps: the lock is held exactly while a thread copies the flat map or
\* validates and writes one leaf. The holder can always take its next step, so
\* a thread that waits for the lock is never stuck behind a suspended holder,
\* and a leaf is written against the value its validation read: updates of one
\* path are applied one after the other.
LockNotHeldWhileSuspended ==
    [][ /\ \A t \in LockThreads : (lock_owner' = t) <=> (lk_pc'[t] \in InsideLock)
        /\ \A t \in LockThreads : lk_pc'[t] \in Suspended => lock_owner' # t
        /\ \A t \in LockThreads : lock_owner = t => ENABLED LkCritical(t)
        /\ \A t \in CallerThreads :
              (lk_pc[t] = "write" /\ lk_pc'[t] # "write") =>
                  LET path == Head(lk_call[t].todo)[1]
                  IN  lk_read[t] = IF path \in DOMAIN flat_dict
                                   THEN <<flat_dict[path]>> ELSE <<>>
      ]_vars

\* the device thread waits for the lock that the gui thread holds for a write
\* of the same leaf, while the broadcaster publishes a snapshot
LockNotHeldWhileSuspendedWitness ==
    /\ lock_owner = "gui"
    /\ lk_pc["gui"] = "write"
    /\ lk_pc["device"] = "acquire"
    /\ Head(lk_call["gui"].todo)[1] = CountPath
    /\ Head(lk_call["device"].todo)[1] = CountPath
    /\ lk_pc[BroadcasterThread] = "publish"

====
